---- MODULE Spec2Model ----
(***************************************************************************)
(* A model of openapi-mcp: the OpenAPIManager spec cache (getSpec with its *)
(* single in-flight fetch, stale fallback and clearCache), the index       *)
(* builders, and the RefResolver ($ref resolution with cycle detection     *)
(* and a depth limit).                                                     *)
(*                                                                         *)
(* Strings are sequences of tokens.  A token is either one of the          *)
(* characters the code inspects ("#", "/", "~", "%", a digit) or a word    *)
(* that contains none of them, so that startsWith, split, replace and      *)
(* percent-decoding can be computed on the sequence.                       *)
(*                                                                         *)
(* JSON values are tagged records:                                         *)
(*   [t |-> "null"], [t |-> "undef"], [t |-> "str", s |-> tokens],         *)
(*   [t |-> "num", n |-> i], [t |-> "arr", c |-> values],                  *)
(*   [t |-> "obj", k |-> keys, c |-> values]   (keys in insertion order)   *)
(***************************************************************************)
EXTENDS Integers, Sequences, FiniteSets, TLC

VARIABLES
    cache,         \* OpenAPIManager.cache: <<>> (null) or <<CachedSpec>>
    fetchPromise,  \* OpenAPIManager.fetchPromise: 0 (null) or a promise
    promises,      \* the promise objects fetchSpec() returned, with the calls suspended on each
    now,           \* Date.now()
    cacheTtl,      \* config.openapi.cacheTtl
    apiKeys,       \* the keys configured in API_KEYS
    transports,    \* the session table of the HTTP transport: the ids of its sessions
    last,          \* the getSpec call that settled most recently, as its caller saw it
    everCached,    \* history: some fetch has installed a cache entry
    resolver,      \* a RefResolver: its document (spec) and its visitedRefs
    answer,        \* the resolveAllRefs call that completed most recently
    reply          \* the resolveRef, manager or tool call that completed most recently

vars == <<cache, fetchPromise, promises, now, cacheTtl, apiKeys, transports, last, everCached,
          resolver, answer, reply>>

-----------------------------------------------------------------------------
(* Bounds *)

\* getSpec calls that may be suspended on one promise besides the call that started it
MaxJoined == 2
\* promise objects alive at once
MaxFetches == 2
\* the clock stops here
MaxTime == 3
\* cacheTtl ranges over 0..MaxTtl
MaxTtl == 2
\* the limit argument of a search ranges over 0..MaxLimit (and absent)
MaxLimit == 2
\* the offset argument of a search ranges over 0..MaxOffset (and absent, and beyond a default page)
MaxOffset == 2
\* the maxDepth argument of resolveAllRefs ranges over 0..MaxDepth
MaxDepth == 4

-----------------------------------------------------------------------------
(* JSON values *)

JNull == [t |-> "null"]
JUndef == [t |-> "undef"]
JStr(s) == [t |-> "str", s |-> s]
JNum(n) == [t |-> "num", n |-> n]
JArr(c) == [t |-> "arr", c |-> c]
JObj(k, c) == [t |-> "obj", k |-> k, c |-> c]

\* A one-word string.
W(w) == <<w>>

\* JavaScript truthiness (the `if (!x)` tests).
Truthy(v) ==
    CASE v.t = "null" -> FALSE
      [] v.t = "undef" -> FALSE
      [] v.t = "str" -> v.s # <<>>
      [] v.t = "num" -> v.n # 0
      [] OTHER -> TRUE

\* Position of key in the object's key list, 0 when absent.
KeyIndex(o, key) ==
    IF \E i \in 1..Len(o.k) : o.k[i] = key
    THEN CHOOSE i \in 1..Len(o.k) : o.k[i] = key
    ELSE 0

\* `key in o` for an object.
HasKey(o, key) == o.t = "obj" /\ KeyIndex(o, key) # 0

\* v[key] for a non-nullish v: own property of an object, undefined otherwise
\* (no key the code reads is a built-in property of a string, number or array).
Prop(v, key) == IF HasKey(v, key) THEN v.c[KeyIndex(v, key)] ELSE JUndef

\* Object.keys(v) for a non-nullish v.
ObjectKeys(v) ==
    CASE v.t = "obj" -> v.k
      [] v.t = "arr" -> [i \in 1..Len(v.c) |-> W(ToString(i - 1))]
      [] v.t = "str" -> [i \in 1..Len(v.s) |-> W(ToString(i - 1))]
      [] OTHER -> <<>>

\* Object.entries(v) for a non-nullish v, as <<key, value>> pairs.
ObjectEntries(v) ==
    CASE v.t = "obj" -> [i \in 1..Len(v.k) |-> <<v.k[i], v.c[i]>>]
      [] v.t = "arr" -> [i \in 1..Len(v.c) |-> <<W(ToString(i - 1)), v.c[i]>>]
      [] v.t = "str" -> [i \in 1..Len(v.s) |-> <<W(ToString(i - 1)), JStr(<<v.s[i]>>)>>]
      [] OTHER -> <<>>

RECURSIVE Flatten(_)
Flatten(ss) == IF ss = <<>> THEN <<>> ELSE Head(ss) \o Flatten(Tail(ss))

\* An object written as <<key, value>> pairs.
O(pairs) == JObj([i \in 1..Len(pairs) |-> pairs[i][1]], [i \in 1..Len(pairs) |-> pairs[i][2]])

\* A completed call: its return value, or the fact that it threw.
Returned(v) == [threw |-> FALSE, v |-> v]
Thrown == [threw |-> TRUE, v |-> <<>>]

-----------------------------------------------------------------------------
(* String.prototype.toUpperCase / toLowerCase on the words the model uses *)

\* <<lower case, upper case>>
CasePairs ==
    { <<"get", "GET">>, <<"post", "POST">>, <<"put", "PUT">>, <<"patch", "PATCH">>,
      <<"delete", "DELETE">>, <<"options", "OPTIONS">>, <<"head", "HEAD">>,
      <<"trace", "TRACE">>,
      <<"parameters", "PARAMETERS">>, <<"summary", "SUMMARY">>,
      <<"pets", "PETS">>, <<"users", "USERS">>, <<"list", "LIST">>,
      <<"name", "NAME">>, <<"id", "ID">>, <<"pet", "PET">>, <<"user", "USER">> }

\* <<lower case, mixed case>>
MixedPairs == { <<"get", "Get">>, <<"pets", "Pets">>, <<"list", "List">>, <<"create", "Create">>,
                <<"name", "Name">>, <<"pet", "Pet">>, <<"user", "User">> }

LowerWord(w) ==
    IF \E p \in CasePairs \cup MixedPairs : p[2] = w
    THEN (CHOOSE p \in CasePairs \cup MixedPairs : p[2] = w)[1]
    ELSE w
UpperWord(w) ==
    IF \E p \in CasePairs : p[1] = LowerWord(w)
    THEN (CHOOSE p \in CasePairs : p[1] = LowerWord(w))[2]
    ELSE w

toUpperCase(s) == [i \in 1..Len(s) |-> UpperWord(s[i])]
toLowerCase(s) == [i \in 1..Len(s) |-> LowerWord(s[i])]

-----------------------------------------------------------------------------
(* Index builders *)

\* Mutant of methods: post before get.
methodsPostFirst == <<"post", "get", "put", "patch", "delete", "options", "head", "trace">>

\* The fixed verb list of buildEndpointIndex.
methods == <<"get", "post", "put", "patch", "delete", "options", "head", "trace">>

\* The EndpointInfo pushed for one operation.
EndpointInfo(path, method, operation) ==
    [ path |-> path,
      method |-> toUpperCase(W(method)),
      summary |-> Prop(operation, W("summary")),
      description |-> Prop(operation, W("description")),
      tags |-> Prop(operation, W("tags")),
      operationId |-> Prop(operation, W("operationId")) ]

\* The inner loop of buildEndpointIndex: the entries of one path item.
EndpointsOfPath(path, pathItem) ==
    LET present == SelectSeq([i \in 1..Len(methods) |-> i],
                             LAMBDA i : Truthy(Prop(pathItem, W(methods[i]))))
    IN  [j \in 1..Len(present) |->
            EndpointInfo(path, methods[present[j]], Prop(pathItem, W(methods[present[j]])))]

\* buildEndpointIndex(spec): reading spec.paths of null or undefined throws.
buildEndpointIndex(spec) ==
    IF spec.t \in {"null", "undef"} THEN Thrown
    ELSE IF ~Truthy(Prop(spec, W("paths"))) THEN Returned(<<>>)
    ELSE LET es == ObjectEntries(Prop(spec, W("paths")))
         IN  Returned(Flatten([i \in 1..Len(es) |->
                 IF ~Truthy(es[i][2]) THEN <<>> ELSE EndpointsOfPath(es[i][1], es[i][2])]))

\* The SchemaInfo pushed for one schema.
SchemaInfo(name, schema) ==
    [ name |-> name,
      type |-> Prop(schema, W("type")),
      properties |-> IF Truthy(Prop(schema, W("properties")))
                     THEN JArr([i \in 1..Len(ObjectKeys(Prop(schema, W("properties")))) |->
                                   JStr(ObjectKeys(Prop(schema, W("properties")))[i])])
                     ELSE JUndef,
      description |-> Prop(schema, W("description")) ]

\* spec.components?.schemas for a non-nullish spec.
ComponentsSchemas(spec) ==
    IF Prop(spec, W("components")).t \in {"null", "undef"} THEN JUndef
    ELSE Prop(Prop(spec, W("components")), W("schemas"))

\* Mutant of buildSchemaIndex: top-level references are indexed too.
buildSchemaIndexKeepsRefs(spec) ==
    IF spec.t \in {"null", "undef"} THEN Thrown
    ELSE IF ~Truthy(ComponentsSchemas(spec)) THEN Returned(<<>>)
    ELSE LET es == ObjectEntries(ComponentsSchemas(spec))
             kept == SelectSeq(es, LAMBDA e : Truthy(e[2]))
         IN  Returned([i \in 1..Len(kept) |-> SchemaInfo(kept[i][1], kept[i][2])])

\* buildSchemaIndex(spec): `'$ref' in schema` throws for a truthy primitive.
buildSchemaIndex(spec) ==
    IF spec.t \in {"null", "undef"} THEN Thrown
    ELSE IF ~Truthy(ComponentsSchemas(spec)) THEN Returned(<<>>)
    ELSE LET es == ObjectEntries(ComponentsSchemas(spec))
             kept == SelectSeq(es, LAMBDA e : Truthy(e[2]) /\ ~HasKey(e[2], W("$ref")))
         IN  IF \E i \in 1..Len(es) : Truthy(es[i][2]) /\ es[i][2].t \notin {"obj", "arr"}
             THEN Thrown
             ELSE Returned([i \in 1..Len(kept) |-> SchemaInfo(kept[i][1], kept[i][2])])

-----------------------------------------------------------------------------
(* The documents the spec URL can answer with *)

Ref(pointer) == O(<< <<W("$ref"), JStr(pointer)>> >>)

\* "#/components/schemas/<name>"
SchemaPointer(name) == <<"#", "/", "components", "/", "schemas", "/", name>>

DocPets ==
    O(<< <<W("paths"), O(<< <<<<"/", "pets">>, O(<< <<W("get"), O(<< <<W("summary"), JStr(W("list"))>> >>)>>,
                                               <<W("post"), O(<<>>)>> >>)>> >>)>>,
         <<W("components"), O(<< <<W("schemas"),
              O(<< <<W("Pet"), O(<< <<W("type"), JStr(W("object"))>>,
                                    <<W("properties"), O(<< <<W("id"), O(<<>>)>> >>)>> >>)>>,
                   <<W("Alias"), Ref(SchemaPointer("Pet"))>> >>)>> >>)>> >>)

DocUsers ==
    O(<< <<W("paths"), O(<< <<<<"/", "users">>, O(<< <<W("delete"), O(<<>>)>> >>)>> >>)>> >>)

\* A body that parses to null ("null" as JSON, or an empty YAML body).
DocNull == JNull

\* A document whose schema map holds a string where a schema object belongs.
DocBadSchema ==
    O(<< <<W("components"), O(<< <<W("schemas"), O(<< <<W("A"), JStr(W("x"))>> >>)>> >>)>> >>)

\* Schemas that refer to each other: A -> B -> A (two distinct pointers).
DocCycle ==
    O(<< <<W("components"), O(<< <<W("schemas"),
              O(<< <<W("A"), O(<< <<W("x"), Ref(SchemaPointer("B"))>> >>)>>,
                   <<W("B"), O(<< <<W("y"), Ref(SchemaPointer("A"))>> >>)>> >>)>> >>)>> >>)

\* "#/%": a pointer whose segment is not a valid percent-escape.
BadPointer == <<"#", "/", "%">>

\* Schemas with a chain of references, a self-reference, one pointer in sibling
\* positions, a reference below plain nesting, references without a target,
\* and a malformed pointer.
DocRefs ==
    O(<< <<W("components"), O(<< <<W("schemas"),
              O(<< <<W("Leaf"), O(<< <<W("type"), JStr(W("string"))>> >>)>>,
                   <<W("Chain3"), Ref(SchemaPointer("Leaf"))>>,
                   <<W("Chain2"), Ref(SchemaPointer("Chain3"))>>,
                   <<W("Chain1"), Ref(SchemaPointer("Chain2"))>>,
                   <<W("Self"), Ref(SchemaPointer("Self"))>>,
                   <<W("Twice"), O(<< <<W("l"), Ref(SchemaPointer("Leaf"))>>,
                                      <<W("list"), JArr(<<Ref(SchemaPointer("Leaf")),
                                                          Ref(SchemaPointer("Leaf"))>>)>> >>)>>,
                   <<W("Nested"), O(<< <<W("a"), JArr(<<Ref(SchemaPointer("Chain3"))>>)>> >>)>>,
                   <<W("Missing"), Ref(SchemaPointer("Nope"))>>,
                   <<W("External"), Ref(<<"other.yaml", "#", "/", "X">>)>>,
                   <<W("Bad"), O(<< <<W("inner"), Ref(BadPointer)>> >>)>>,
                   <<W("Wrapper"), Ref(SchemaPointer("Bad"))>> >>)>> >>)>> >>)

\* A document with path-level summary and parameters, operations with and
\* without tags, parameters and references, and schemas with and without
\* properties, one of them a top-level reference.
DocApi ==
    O(<< <<W("paths"),
           O(<< <<<<"/", "pets">>,
                  O(<< <<W("summary"), JStr(W("Pets"))>>,
                       <<W("parameters"), JArr(<< O(<< <<W("name"), JStr(W("limit"))>> >>) >>)>>,
                       <<W("get"), O(<< <<W("summary"), JStr(<<"List", " ", "pets">>)>>,
                                        <<W("tags"), JArr(<<JStr(W("pets"))>>)>>,
                                        <<W("operationId"), JStr(W("listPets"))>>,
                                        <<W("parameters"),
                                          JArr(<<Ref(<<"#", "/", "components", "/", "parameters", "/", "Page">>)>>)>>,
                                        <<W("schema"), Ref(SchemaPointer("Alias"))>> >>)>>,
                       <<W("post"), O(<< <<W("description"), JStr(<<"Create", " ", "pets">>)>>,
                                         <<W("tags"), JArr(<<JStr(W("pets")), JStr(W("write"))>>)>>,
                                         <<W("parameters"), JArr(<< O(<< <<W("name"), JStr(W("limit"))>> >>) >>)>> >>)>> >>)>>,
                <<<<"/", "users">>,
                  O(<< <<W("delete"), O(<< <<W("parameters"), JArr(<<>>)>> >>)>>,
                       <<W("get"), O(<< <<W("summary"), JStr(<<"list", " ", "users">>)>>,
                                        <<W("tags"), JArr(<<JStr(W("users"))>>)>> >>)>> >>)>> >>)>>,
         <<W("components"),
           O(<< <<W("schemas"),
                  O(<< <<W("Pet"), O(<< <<W("type"), JStr(W("object"))>>,
                                        <<W("properties"), O(<< <<W("id"), O(<<>>)>>,
                                                                <<<<"pet", "Name">>, O(<<>>)>> >>)>> >>)>>,
                       <<W("Alias"), Ref(SchemaPointer("Pet"))>>,
                       <<W("User"), O(<< <<W("type"), JStr(W("object"))>>,
                                         <<W("description"), JStr(W("user"))>>,
                                         <<W("properties"), O(<< <<<<"user", "Name">>, Ref(SchemaPointer("Tag"))>> >>)>> >>)>>,
                       <<W("Tag"), O(<< <<W("type"), JStr(W("string"))>> >>)>> >>)>>,
                <<W("parameters"),
                  O(<< <<W("Page"), O(<< <<W("name"), JStr(W("page"))>> >>)>> >>)>> >>)>>,
         <<W("info"), O(<< <<W("title"), JStr(W("api"))>> >>)>>,
         <<W("tags"), JArr(<< O(<< <<W("name"), JStr(W("pets"))>> >>) >>)>>,
         <<W("servers"), JArr(<< O(<< <<W("url"), JStr(W("/"))>> >>) >>)>> >>)

\* A document without paths.
DocBare ==
    O(<< <<W("info"), O(<< <<W("title"), JStr(W("bare"))>> >>)>> >>)

\* A document with more endpoints than a default page holds: three paths with
\* an empty operation for each of the eight verbs.
DocMany ==
    O(<< <<W("paths"),
           JObj([i \in 1..3 |-> <<"/", "p", ToString(i)>>],
                [i \in 1..3 |-> JObj([j \in 1..Len(methods) |-> W(methods[j])],
                                     [j \in 1..Len(methods) |-> O(<<>>)])])>> >>)

\* A document with an absent (null) path item, absent (null) verbs, a verb out
\* of the fixed order and a path-level field.
DocSparse ==
    O(<< <<W("paths"),
           O(<< <<<<"/", "a">>, JNull>>,
                <<<<"/", "b">>, O(<< <<W("head"), O(<<>>)>>,
                                     <<W("get"), JNull>>,
                                     <<W("summary"), JStr(W("b"))>>,
                                     <<W("put"), O(<< <<W("summary"), JStr(W("put"))>> >>)>> >>)>>,
                <<<<"/", "c">>, O(<<>>)>> >>)>>,
         <<W("components"), O(<< <<W("schemas"), O(<< <<W("Gone"), JNull>>,
                                                     <<W("Kept"), O(<<>>)>> >>)>> >>)>> >>)

\* The state holds documents by reference; Body gives the referenced value.
Documents == {"pets", "users", "null", "badSchema"}

Body(d) ==
    CASE d = "pets" -> DocPets
      [] d = "users" -> DocUsers
      [] d = "null" -> DocNull
      [] d = "badSchema" -> DocBadSchema
      [] d = "cycle" -> DocCycle
      [] d = "refs" -> DocRefs
      [] d = "api" -> DocApi
      [] d = "many" -> DocMany
      [] d = "sparse" -> DocSparse
      [] d = "bare" -> DocBare

\* No document (the value of an unsettled or rejected promise).
NoDoc == "none"

-----------------------------------------------------------------------------
(* OpenAPIManager: the cache and getSpec *)

\* A promise object returned by fetchSpec() ("free": no such object).
\*   state, doc  its settlement
\*   handled     the getSpec call that started the fetch has run its continuation
\*               (until then that call is suspended at line 51)
\*   joined      the number of getSpec calls that returned this promise at line 44
\*               and have not settled yet
\*   before      history: the cache when the fetch was started
\*   cleared     history: clearCache ran between the start of the fetch and the
\*               continuation
FreePromise ==
    [ state |-> "free", doc |-> NoDoc, handled |-> FALSE, joined |-> 0,
      before |-> <<>>, cleared |-> FALSE ]

NewPromise ==
    [ state |-> "pending", doc |-> NoDoc, handled |-> FALSE, joined |-> 0,
      before |-> cache, cleared |-> FALSE ]

PromiseIds == 1..MaxFetches

\* A settled promise that no call is suspended on is garbage.
Collect(p) == IF p.handled /\ p.joined = 0 THEN FreePromise ELSE p

\* The document of a cache value, NoDoc for null.
DocOf(entry) == IF entry = <<>> THEN NoDoc ELSE entry[1].spec

\* Mutant of BuildersRun: the builders run whether or not the fetch resolved.
BuildersRunAlways(p) == <<"buildEndpointIndex", "buildSchemaIndex">>

\* Lines 51-57: the index builders the try block calls, in order, when the
\* awaited promise has settled as p.  A rejected await skips the block; the
\* object literal calls buildEndpointIndex first, and buildSchemaIndex only if
\* that call returned.  The other branches of getSpec (lines 38-45) call none.
BuildersRun(p) ==
    IF p.state # "ok" THEN <<>>
    ELSE IF buildEndpointIndex(Body(p.doc)).threw THEN <<"buildEndpointIndex">>
    ELSE <<"buildEndpointIndex", "buildSchemaIndex">>

\* How a getSpec call settled: the branch it took (via), what its caller got
\* (kind, doc), how the fetch it waited on had settled (fetch, fetched), the
\* document of the cache entry the settling step found (before), whether
\* clearCache ran while that fetch was unhandled (cleared) and the index
\* builders the call ran (ran).
Settled(via, outcome, p, entry) ==
    [ via |-> via, kind |-> outcome.kind, doc |-> outcome.doc,
      fetch |-> p.state, fetched |-> p.doc,
      before |-> DocOf(entry), cleared |-> p.cleared,
      ran |-> IF via = "fetch" THEN BuildersRun(p) ELSE <<>> ]

NoCall ==
    [ via |-> "none", kind |-> "none", doc |-> NoDoc,
      fetch |-> "free", fetched |-> NoDoc, before |-> NoDoc, cleared |-> FALSE,
      ran |-> <<>> ]

Resolved(d) == [kind |-> "doc", doc |-> d]
Rejected == [kind |-> "err", doc |-> NoDoc]

\* Promise reactions are microtasks: once a fetch promise has settled, the
\* continuation of the call that awaits it and the settlement of the calls that
\* returned it run before the event loop takes its next task (a request that
\* calls getSpec, a signal that calls clearCache, the completion of a fetch).
Draining == \E i \in PromiseIds : promises[i].state \in {"ok", "fail"}

\* Mutant of Fresh: the comparison is inverted.
FreshInverted == cache # <<>> /\ now - cache[1].fetchedAt >= cacheTtl

\* Line 38: this.cache && Date.now() - this.cache.fetchedAt < config.openapi.cacheTtl
Fresh == cache # <<>> /\ now - cache[1].fetchedAt < cacheTtl

\* Mutant of CachedSpec: the endpoint index of the entry being replaced is kept.
CachedSpecKeepsIndex(spec) ==
    [ spec |-> spec,
      fetchedAt |-> now,
      endpointIndex |-> IF cache # <<>> THEN cache[1].endpointIndex
                        ELSE buildEndpointIndex(Body(spec)).v,
      schemaIndex |-> buildSchemaIndex(Body(spec)).v ]

\* Lines 52-57: the CachedSpec built from a fetched document.
CachedSpec(spec) ==
    [ spec |-> spec,
      fetchedAt |-> now,
      endpointIndex |-> buildEndpointIndex(Body(spec)).v,
      schemaIndex |-> buildSchemaIndex(Body(spec)).v ]

\* Lines 51-57 complete without throwing: the awaited promise resolved and
\* both index builders returned.
TryCompletes(p) ==
    p.state = "ok" /\ ~buildEndpointIndex(Body(p.doc)).threw /\ ~buildSchemaIndex(Body(p.doc)).threw

\* Lines 38-40: a fresh entry is returned at once.
GetSpecCached ==
    /\ Fresh
    /\ last' = Settled("cached", Resolved(cache[1].spec), FreePromise, cache)
    /\ UNCHANGED <<cache, fetchPromise, promises>>

\* Lines 43-45: a fetch is in progress; the call returns that promise.
GetSpecJoin ==
    /\ ~Fresh
    /\ fetchPromise # 0
    /\ promises[fetchPromise].joined < MaxJoined
    /\ promises' = [promises EXCEPT ![fetchPromise].joined = @ + 1]
    /\ UNCHANGED <<cache, fetchPromise, last>>

\* Mutant of GetSpecFetch: the in-progress test of line 43 is missing.
GetSpecFetchUnguarded ==
    /\ ~Fresh
    /\ \E i \in PromiseIds :
          /\ promises[i].state = "free"
          /\ \A j \in PromiseIds : promises[j].state = "free" => i <= j
          /\ promises' = [promises EXCEPT ![i] = NewPromise]
          /\ fetchPromise' = i
    /\ UNCHANGED <<cache, last>>

\* Lines 48-51: start a fetch and await it.
GetSpecFetch ==
    /\ ~Fresh
    /\ fetchPromise = 0
    /\ \E i \in PromiseIds :
          /\ promises[i].state = "free"
          /\ \A j \in PromiseIds : promises[j].state = "free" => i <= j
          /\ promises' = [promises EXCEPT ![i] = NewPromise]
          /\ fetchPromise' = i
    /\ UNCHANGED <<cache, last>>

\* getSpec(), up to its first suspension.
getSpec ==
    /\ ~Draining
    /\ UNCHANGED <<now, cacheTtl, apiKeys, transports, everCached, resolver, answer, reply>>
    /\ \/ GetSpecCached
       \/ GetSpecJoin
       \/ GetSpecFetch

\* fetchSpec() resolves with the parsed body.
FetchResolves(i, d) ==
    /\ ~Draining
    /\ promises[i].state = "pending"
    /\ promises' = [promises EXCEPT ![i].state = "ok", ![i].doc = d]
    /\ UNCHANGED <<cache, fetchPromise, now, cacheTtl, apiKeys, transports, last, everCached, resolver, answer, reply>>

\* fetchSpec() rejects: network error, non-2xx status, unparseable body.
FetchRejects(i) ==
    /\ ~Draining
    /\ promises[i].state = "pending"
    /\ promises' = [promises EXCEPT ![i].state = "fail"]
    /\ UNCHANGED <<cache, fetchPromise, now, cacheTtl, apiKeys, transports, last, everCached, resolver, answer, reply>>

\* Mutant of CacheAfter: a failed refresh drops the entry.
CacheAfterDropsEntry(p) == IF TryCompletes(p) THEN <<CachedSpec(p.doc)>> ELSE <<>>

\* Lines 52-57 and 59-65: the cache after the continuation; the catch block
\* leaves it as it is.
CacheAfter(p) == IF TryCompletes(p) THEN <<CachedSpec(p.doc)>> ELSE cache

\* Mutant of CatchOutcome: the error is rethrown whether or not an entry exists.
CatchOutcomeRethrows == Rejected

\* Mutant of CatchOutcome: the error is swallowed when no entry exists.
CatchOutcomeSwallows == Resolved(DocOf(cache))

\* Lines 59-65: the catch block's outcome.
CatchOutcome == IF cache # <<>> THEN Resolved(cache[1].spec) ELSE Rejected

\* Mutant of ResumeGetSpec: fetchPromise is reset only when the try block
\* completed.
ResumeGetSpecKeepsGuard(i) ==
    /\ promises[i].state \in {"ok", "fail"}
    /\ ~promises[i].handled
    /\ cache' = CacheAfter(promises[i])
    /\ last' = Settled("fetch",
                       IF TryCompletes(promises[i]) THEN Resolved(promises[i].doc) ELSE CatchOutcome,
                       promises[i], cache)
    /\ everCached' = (everCached \/ TryCompletes(promises[i]))
    /\ fetchPromise' = IF TryCompletes(promises[i]) THEN 0 ELSE fetchPromise
    /\ promises' = [promises EXCEPT ![i] = Collect([@ EXCEPT !.handled = TRUE])]
    /\ UNCHANGED <<now, cacheTtl, apiKeys, transports, resolver, answer, reply>>

\* Lines 51-68: the continuation of the call that started fetch i, run when
\* the awaited promise has settled: try, catch and finally in one step.
ResumeGetSpec(i) ==
    /\ promises[i].state \in {"ok", "fail"}
    /\ ~promises[i].handled
    /\ cache' = CacheAfter(promises[i])
    /\ last' = Settled("fetch",
                       IF TryCompletes(promises[i]) THEN Resolved(promises[i].doc) ELSE CatchOutcome,
                       promises[i], cache)
    /\ everCached' = (everCached \/ TryCompletes(promises[i]))
    /\ fetchPromise' = 0
    /\ promises' = [promises EXCEPT ![i] = Collect([@ EXCEPT !.handled = TRUE])]
    /\ UNCHANGED <<now, cacheTtl, apiKeys, transports, resolver, answer, reply>>

\* A call that returned promise i at line 44 settles as that promise did.  Its
\* reaction was registered after the starting call's await, so it runs after it.
JoinedSettles(i) ==
    /\ promises[i].state \in {"ok", "fail"}
    /\ promises[i].handled
    /\ promises[i].joined > 0
    /\ last' = Settled("join",
                       IF promises[i].state = "ok" THEN Resolved(promises[i].doc) ELSE Rejected,
                       promises[i], cache)
    /\ promises' = [promises EXCEPT ![i] = Collect([@ EXCEPT !.joined = @ - 1])]
    /\ UNCHANGED <<cache, fetchPromise, now, cacheTtl, apiKeys, transports, everCached, resolver, answer, reply>>

\* Mutant of clearCache: the in-flight fetch is detached as well.
clearCacheDetaches ==
    /\ ~Draining
    /\ cache' = <<>>
    /\ fetchPromise' = 0
    /\ promises' = [i \in PromiseIds |->
                       IF promises[i].state = "free" \/ promises[i].handled
                       THEN promises[i]
                       ELSE [promises[i] EXCEPT !.cleared = TRUE]]
    /\ UNCHANGED <<now, cacheTtl, apiKeys, transports, last, everCached, resolver, answer, reply>>

\* Mutant of clearCache: the indexes of the entry are emptied in place.
clearCacheEmptiesIndexes ==
    /\ ~Draining
    /\ cache' = IF cache = <<>> THEN cache
                ELSE <<[cache[1] EXCEPT !.endpointIndex = <<>>, !.schemaIndex = <<>>]>>
    /\ promises' = [i \in PromiseIds |->
                       IF promises[i].state = "free" \/ promises[i].handled
                       THEN promises[i]
                       ELSE [promises[i] EXCEPT !.cleared = TRUE]]
    /\ UNCHANGED <<fetchPromise, now, cacheTtl, apiKeys, transports, last, everCached, resolver, answer, reply>>

\* Lines 388-390.
clearCache ==
    /\ ~Draining
    /\ cache' = <<>>
    /\ promises' = [i \in PromiseIds |->
                       IF promises[i].state = "free" \/ promises[i].handled
                       THEN promises[i]
                       ELSE [promises[i] EXCEPT !.cleared = TRUE]]
    /\ UNCHANGED <<fetchPromise, now, cacheTtl, apiKeys, transports, last, everCached, resolver, answer, reply>>

\* Date.now() advances.
Tick ==
    /\ ~Draining
    /\ now < MaxTime
    /\ now' = now + 1
    /\ UNCHANGED <<cache, fetchPromise, promises, cacheTtl, apiKeys, transports, last, everCached, resolver, answer, reply>>

\* No RefResolver constructed, no resolveAllRefs call made.
NoResolver == [spec |-> NoDoc, visitedRefs |-> {}]

NoAnswer ==
    [ called |-> FALSE, obj |-> JUndef, maxDepth |-> 0, before |-> {}, after |-> {},
      threw |-> FALSE, v |-> JUndef, log |-> {} ]

\* No such call made.
NoReply == [op |-> "none"]

Init ==
    /\ cache = <<>>
    /\ fetchPromise = 0
    /\ promises = [i \in PromiseIds |-> FreePromise]
    /\ now = 0
    /\ cacheTtl \in 0..MaxTtl
    /\ apiKeys = {}
    /\ transports = {}
    /\ last = NoCall
    /\ everCached = FALSE
    /\ resolver = NoResolver
    /\ answer = NoAnswer
    /\ reply = NoReply

Next ==
    \/ getSpec
    \/ \E i \in PromiseIds, d \in Documents : FetchResolves(i, d)
    \/ \E i \in PromiseIds : FetchRejects(i)
    \/ \E i \in PromiseIds : ResumeGetSpec(i)
    \/ \E i \in PromiseIds : JoinedSettles(i)
    \/ clearCache
    \/ Tick

Spec == Init /\ [][Next]_vars

-----------------------------------------------------------------------------
(* RefResolver.resolveRef *)

\* ref.startsWith('#/')
StartsWithHashSlash(ref) == Len(ref) >= 2 /\ ref[1] = "#" /\ ref[2] = "/"

\* s.split('/'): the segments between the "/" tokens ("" splits into [""]).
RECURSIVE Split(_)
Split(s) ==
    IF \E i \in 1..Len(s) : s[i] = "/"
    THEN LET i == CHOOSE j \in 1..Len(s) : s[j] = "/" /\ \A k \in 1..(j - 1) : s[k] # "/"
         IN  <<SubSeq(s, 1, i - 1)>> \o Split(SubSeq(s, i + 1, Len(s)))
    ELSE <<s>>

\* s.replace(/<a><b>/g, to): every non-overlapping occurrence, left to right.
RECURSIVE ReplaceAll(_, _, _, _)
ReplaceAll(s, a, b, to) ==
    IF s = <<>> THEN <<>>
    ELSE IF Len(s) >= 2 /\ s[1] = a /\ s[2] = b
         THEN <<to>> \o ReplaceAll(SubSeq(s, 3, Len(s)), a, b, to)
         ELSE <<s[1]>> \o ReplaceAll(Tail(s), a, b, to)

\* Line 26: segment.replace(/~1/g, '/').replace(/~0/g, '~')
Unescape(segment) == ReplaceAll(ReplaceAll(segment, "~", "1", "/"), "~", "0", "~")

HexDigits == {"0", "1", "2", "3", "4", "5", "6", "7", "8", "9", "A", "B", "C", "D", "E", "F"}

\* The character %xy stands for, for x < 8 (one-byte UTF-8).
PercentChar(x, y) ==
    CASE x = "2" /\ y = "F" -> "/"
      [] x = "7" /\ y = "E" -> "~"
      [] x = "2" /\ y = "5" -> "%"
      [] x = "2" /\ y = "3" -> "#"
      [] x = "3" /\ y = "0" -> "0"
      [] x = "3" /\ y = "1" -> "1"
      [] OTHER -> "\\x" \o x \o y

\* decodeURIComponent(s): throws URIError on "%" not followed by two hex
\* digits and on a byte >= 0x80 that does not start a complete UTF-8 sequence
\* (the model's strings hold no multi-byte escapes).
RECURSIVE decodeURIComponent(_)
decodeURIComponent(s) ==
    IF s = <<>> THEN Returned(<<>>)
    ELSE IF s[1] # "%"
         THEN LET rest == decodeURIComponent(Tail(s))
              IN  IF rest.threw THEN Thrown ELSE Returned(<<s[1]>> \o rest.v)
         ELSE IF Len(s) < 3 \/ s[2] \notin HexDigits \/ s[3] \notin HexDigits
                 \/ s[2] \notin {"0", "1", "2", "3", "4", "5", "6", "7"}
              THEN Thrown
              ELSE LET rest == decodeURIComponent(SubSeq(s, 4, Len(s)))
                   IN  IF rest.threw THEN Thrown
                       ELSE Returned(<<PercentChar(s[2], s[3])>> \o rest.v)

\* Names every object inherits from Object.prototype (two of them).
InheritedKeys == {W("constructor"), W("toString")}

JFunc(name) == [t |-> "func", name |-> name]

\* Line 27: current && typeof current === 'object' && decodedSegment in current
InObject(current, key) ==
    CASE current.t = "obj" -> HasKey(current, key) \/ key \in InheritedKeys
      [] current.t = "arr" ->
            \/ \E i \in 1..Len(current.c) : key = W(ToString(i - 1))
            \/ key = W("length")
            \/ key \in InheritedKeys
      [] OTHER -> FALSE

\* Line 28: current[decodedSegment], for a key that is `in` current.
Member(current, key) ==
    CASE current.t = "obj" /\ HasKey(current, key) -> Prop(current, key)
      [] current.t = "arr" /\ key = W("length") -> JNum(Len(current.c))
      [] current.t = "arr" /\ \E i \in 1..Len(current.c) : key = W(ToString(i - 1)) ->
            current.c[CHOOSE i \in 1..Len(current.c) : key = W(ToString(i - 1))]
      [] OTHER -> JFunc(key)

\* { $unresolvableRef: ref }
Unresolvable(ref) == O(<< <<W("$unresolvableRef"), JStr(ref)>> >>)

\* Lines 24-32: the walk over the remaining segments.
RECURSIVE Walk(_, _, _)
Walk(current, path, ref) ==
    IF path = <<>> THEN Returned(current)
    ELSE LET decoded == decodeURIComponent(Unescape(Head(path)))
         IN  IF decoded.threw THEN Thrown
             ELSE IF InObject(current, decoded.v)
                  THEN Walk(Member(current, decoded.v), Tail(path), ref)
                  ELSE Returned(Unresolvable(ref))

\* resolveRef(ref) against the resolver's document.
resolveRef(spec, ref) ==
    IF ~StartsWithHashSlash(ref) THEN Returned(Unresolvable(ref))
    ELSE Walk(spec, Split(SubSeq(ref, 3, Len(ref))), ref)

-----------------------------------------------------------------------------
(* RefResolver.resolveAllRefs *)

\* The outcome of a call: threw and v as usual, the resolver's visitedRefs
\* when the call was left, and a log of what the call did (history):
\*   "raw"       line 42 returned a value as it was; one event with ref = <<>>
\*               and one for the pointer of each $ref node inside the value
\*   "throw"     resolveRef(ref) at line 69 threw
\*   "circular"  line 65 returned a circular marker for ref
\*   "expand"    lines 68-73 replaced a $ref node by its resolved target
\* Each event keeps the resolver's visitedRefs while the node was worked on:
\* for "expand" and "throw" the set after line 68.
Outcome(threw, v, visited, log) == [threw |-> threw, v |-> v, visited |-> visited, log |-> log]

Event(e, ref, path, held) == [e |-> e, ref |-> ref, path |-> path, held |-> held]

\* { $circularRef: ref }
CircularRef(ref) == O(<< <<W("$circularRef"), JStr(ref)>> >>)

\* Line 60: '$ref' in typedObj && typeof typedObj.$ref === 'string'
IsRefNode(obj) == HasKey(obj, W("$ref")) /\ Prop(obj, W("$ref")).t = "str"

\* The pointers of the $ref nodes in a value.
RECURSIVE RefsIn(_)
RefsIn(obj) ==
    IF obj.t \notin {"obj", "arr"} THEN {}
    ELSE (IF IsRefNode(obj) THEN {Prop(obj, W("$ref")).s} ELSE {})
            \cup UNION { RefsIn(obj.c[i]) : i \in 1..Len(obj.c) }

RawEvents(obj, path, held) ==
    {Event("raw", <<>>, path, held)} \cup {Event("raw", r, path, held) : r \in RefsIn(obj)}

\* Line 41: currentDepth >= maxDepth
AtDepthLimit(currentDepth, maxDepth) == currentDepth >= maxDepth

\* Mutant of AlreadyVisited: the cycle test is missing.
AlreadyVisitedNever(visited, ref) == FALSE

\* Line 64: this.visitedRefs.has(ref)
AlreadyVisited(visited, ref) == ref \in visited

\* Mutant of ContainerDepth: nesting in a container counts as a level.
ContainerDepthDeeper(currentDepth) == currentDepth + 1

\* Lines 50 and 79: elements and properties are resolved at the same depth.
ContainerDepth(currentDepth) == currentDepth

\* Mutant of Rebuild: the properties are not copied.
RebuildEmpty(obj, values) == JObj(<<>>, <<>>)

\* Lines 77-82: a new object with the keys of obj and the resolved values.
Rebuild(obj, values) == JObj(obj.k, values)

\* Mutant of Unmark: the pointer stays in the set.
UnmarkNothing(visited, ref) == visited

\* Line 71: this.visitedRefs.delete(ref)
Unmark(visited, ref) == visited \ {ref}

RECURSIVE resolveAllRefs(_, _, _, _, _, _)
RECURSIVE ResolveEach(_, _, _, _, _, _)

\* Lines 50 and 78-80: the values of a container, resolved in order; a throw
\* ends the loop.
ResolveEach(spec, items, maxDepth, currentDepth, visited, path) ==
    IF items = <<>> THEN Outcome(FALSE, <<>>, visited, {})
    ELSE LET h == resolveAllRefs(spec, Head(items), maxDepth, currentDepth, visited, path)
         IN  IF h.threw THEN h
             ELSE LET t == ResolveEach(spec, Tail(items), maxDepth, currentDepth, h.visited, path)
                  IN  Outcome(t.threw, <<h.v>> \o t.v, t.visited, h.log \cup t.log)

\* resolveAllRefs(obj, maxDepth, currentDepth) on a resolver for spec whose
\* visitedRefs is visited; path lists the refs whose resolution encloses this
\* call (history).
resolveAllRefs(spec, obj, maxDepth, currentDepth, visited, path) ==
    IF AtDepthLimit(currentDepth, maxDepth)
    THEN Outcome(FALSE, obj, visited, RawEvents(obj, path, visited))
    ELSE IF obj.t \in {"null", "undef"} THEN Outcome(FALSE, obj, visited, {})
    ELSE IF obj.t = "arr"
    THEN LET r == ResolveEach(spec, obj.c, maxDepth, ContainerDepth(currentDepth), visited, path)
         IN  Outcome(r.threw, JArr(r.v), r.visited, r.log)
    ELSE IF obj.t # "obj" THEN Outcome(FALSE, obj, visited, {})
    ELSE IF IsRefNode(obj)
    THEN LET ref == Prop(obj, W("$ref")).s
         IN  IF AlreadyVisited(visited, ref)
             THEN Outcome(FALSE, CircularRef(ref), visited, {Event("circular", ref, path, visited)})
             ELSE LET resolved == resolveRef(spec, ref)
                  IN  IF resolved.threw
                      THEN Outcome(TRUE, JUndef, visited \cup {ref}, {Event("throw", ref, path, visited \cup {ref})})
                      ELSE LET r == resolveAllRefs(spec, resolved.v, maxDepth, currentDepth + 1,
                                                   visited \cup {ref}, Append(path, ref))
                           IN  IF r.threw THEN r
                               ELSE Outcome(FALSE, r.v, Unmark(r.visited, ref),
                                            r.log \cup {Event("expand", ref, path, visited \cup {ref})})
    ELSE LET r == ResolveEach(spec, obj.c, maxDepth, ContainerDepth(currentDepth), visited, path)
         IN  Outcome(r.threw, Rebuild(obj, r.v), r.visited, r.log)

-----------------------------------------------------------------------------
(* A RefResolver and the calls made on it *)

\* The documents a resolver is constructed for.
ResolverDocuments == {"cycle", "refs"}

\* A value without any $ref string: objects in objects in a sequence, with a
\* null, a number, a string and a $ref that is not a string.
DeepPlain ==
    O(<< <<W("allOf"), JArr(<< O(<< <<W("properties"), O(<< <<W("id"), O(<< <<W("type"), JStr(W("string"))>>,
                                                                        <<W("nullable"), JNull>> >>)>> >>)>> >>),
                               JNum(1),
                               O(<< <<W("$ref"), JNum(1)>> >>) >>)>> >>)

PlainValues == {DeepPlain, JNull, JStr(W("x"))}

\* The values handed to resolveAllRefs: the schemas of the document
\* (getSchemaDetails, line 317), references to them, a sequence of
\* references, and values without references.
Values(d) ==
    LET schemas == ComponentsSchemas(Body(d))
    IN  { schemas.c[i] : i \in 1..Len(schemas.c) }
          \cup { Ref(SchemaPointer(schemas.k[i][1])) : i \in 1..Len(schemas.k) }
          \cup { JArr(<<Ref(SchemaPointer(schemas.k[1][1])), Ref(SchemaPointer(schemas.k[1][1]))>>) }
          \cup PlainValues

\* new RefResolver(spec)
NewResolver(d) == [spec |-> d, visitedRefs |-> {}]

\* resolver.resolveAllRefs(obj, maxDepth), from call to return or throw.
CallResolveAllRefs(obj, maxDepth) ==
    LET out == resolveAllRefs(Body(resolver.spec), obj, maxDepth, 0, resolver.visitedRefs, <<>>)
    IN  /\ resolver.spec # NoDoc
        /\ resolver' = [resolver EXCEPT !.visitedRefs = out.visited]
        /\ answer' = [ called |-> TRUE, obj |-> obj, maxDepth |-> maxDepth,
                       before |-> resolver.visitedRefs, after |-> out.visited,
                       threw |-> out.threw, v |-> out.v, log |-> out.log ]
        /\ UNCHANGED <<cache, fetchPromise, promises, now, cacheTtl, apiKeys, transports, last, everCached, reply>>

\* The pointers handed to resolveRef: to a path item with "/" written ~1,
\* %2F and %7E1, to a nested value, through a string, to a missing schema, to
\* a name every object inherits, to another file, and a malformed one.
Pointers ==
    { <<"#", "/", "paths", "/", "~", "1", "pets">>,
      <<"#", "/", "paths", "/", "%", "2", "F", "pets">>,
      <<"#", "/", "paths", "/", "%", "7", "E", "1", "pets">>,
      <<"#", "/", "paths", "/", "~", "1", "pets", "/", "get", "/", "summary">>,
      <<"#", "/", "paths", "/", "~", "1", "pets", "/", "get", "/", "summary", "/", "x">>,
      SchemaPointer("Pet"),
      SchemaPointer("Nope"),
      <<"#", "/", "constructor">>,
      <<"other.yaml", "#", "/", "X">>,
      BadPointer,
      <<"#", "/">>,
      <<"#", "/", "paths">>,
      <<"#", "/", "paths", "/", "~", "0", "1", "pets">>,
      <<"#", "/", "toString">>,
      SchemaPointer("A"),
      SchemaPointer("A") \o <<"/", "0">>,
      SchemaPointer("Pet") \o <<"/", "properties", "/", "id">>,
      SchemaPointer("Twice") \o <<"/", "list", "/", "0">>,
      SchemaPointer("Twice") \o <<"/", "list", "/", "length">> }

\* resolver.resolveRef(ref), from call to return or throw.
CallResolveRef(ref) ==
    LET out == resolveRef(Body(resolver.spec), ref)
    IN  /\ resolver.spec # NoDoc
        /\ reply' = [op |-> "resolveRef", ref |-> ref, threw |-> out.threw, v |-> out.v]
        /\ UNCHANGED <<cache, fetchPromise, promises, now, cacheTtl, apiKeys, transports, last, everCached,
                       resolver, answer>>

\* resolver.reset()
reset ==
    /\ resolver.spec # NoDoc
    /\ resolver' = [resolver EXCEPT !.visitedRefs = {}]
    /\ UNCHANGED <<cache, fetchPromise, promises, now, cacheTtl, apiKeys, transports, last, everCached, answer, reply>>

InitResolve ==
    /\ cache = <<>>
    /\ fetchPromise = 0
    /\ promises = [i \in PromiseIds |-> FreePromise]
    /\ now = 0
    /\ cacheTtl = 0
    /\ apiKeys = {}
    /\ transports = {}
    /\ last = NoCall
    /\ everCached = FALSE
    /\ resolver \in { NewResolver(d) : d \in ResolverDocuments }
    /\ answer = NoAnswer
    /\ reply = NoReply

NextResolve ==
    \/ \E obj \in Values(resolver.spec), maxDepth \in 0..MaxDepth : CallResolveAllRefs(obj, maxDepth)
    \/ reset

SpecResolve == InitResolve /\ [][NextResolve]_vars

\* resolveRef as a function of the document and the pointer.
InitPointer ==
    /\ cache = <<>>
    /\ fetchPromise = 0
    /\ promises = [i \in PromiseIds |-> FreePromise]
    /\ now = 0
    /\ cacheTtl = 0
    /\ apiKeys = {}
    /\ transports = {}
    /\ last = NoCall
    /\ everCached = FALSE
    /\ resolver \in { NewResolver(d) : d \in Documents \cup ResolverDocuments }
    /\ answer = NoAnswer
    /\ reply = NoReply

NextPointer == \E ref \in Pointers : CallResolveRef(ref)

SpecPointer == InitPointer /\ [][NextPointer]_vars

-----------------------------------------------------------------------------
(* OpenAPIManager: the queries, on a fresh cache *)

\* The outcome of a manager call: a value, or an Error with its message class.
Ok(v) == [threw |-> FALSE, error |-> "none", v |-> v]
Fail(error) == [threw |-> TRUE, error |-> error, v |-> JUndef]

\* The default of the maxDepth parameter (part_001 line 40, OpenAPIManager.ts
\* line 305, part_000 line 56).
DefaultMaxDepth == 5

\* obj[key] = value: an existing key keeps its place.
Assign(obj, key, value) ==
    IF HasKey(obj, key)
    THEN JObj(obj.k, [obj.c EXCEPT ![KeyIndex(obj, key)] = value])
    ELSE JObj(Append(obj.k, key), Append(obj.c, value))

RECURSIVE AssignAll(_, _)
AssignAll(obj, entries) ==
    IF entries = <<>> THEN obj
    ELSE AssignAll(Assign(obj, Head(entries)[1], Head(entries)[2]), Tail(entries))

\* Own property order: integer keys come before the other keys.
IsIndexKey(key) == \E i \in 0..9 : key = W(ToString(i))

OwnOrder(obj) ==
    LET idx == SelectSeq([i \in 1..Len(obj.k) |-> i], LAMBDA i : IsIndexKey(obj.k[i]))
        oth == SelectSeq([i \in 1..Len(obj.k) |-> i], LAMBDA i : ~IsIndexKey(obj.k[i]))
    IN  JObj([i \in 1..Len(idx) |-> obj.k[idx[i]]] \o [i \in 1..Len(oth) |-> obj.k[oth[i]]],
             [i \in 1..Len(idx) |-> obj.c[idx[i]]] \o [i \in 1..Len(oth) |-> obj.c[oth[i]]])

\* x || [] (lines 243, 244)
OrEmpty(v) == IF Truthy(v) THEN v ELSE JArr(<<>>)

\* [...v]: arrays and strings are iterable, other values are not.
Iterable(v) == v.t \in {"arr", "str"}
Spread(v) == IF v.t = "arr" THEN v.c ELSE [i \in 1..Len(v.s) |-> JStr(<<v.s[i]>>)]

\* Lines 246-251: { path, method, ...operation, parameters }
EndpointResult(path, method, operation, allParams) ==
    OwnOrder(Assign(AssignAll(O(<< <<W("path"), JStr(path)>>,
                                   <<W("method"), JStr(toUpperCase(method))>> >>),
                              ObjectEntries(operation)),
                    W("parameters"),
                    IF Len(allParams) > 0 THEN JArr(allParams) ELSE JUndef))

\* Mutant of AllParams: the operation's parameters come first.
AllParamsOperationFirst(pathParams, opParams) == Spread(opParams) \o Spread(pathParams)

\* Line 244: [...pathParams, ...(operation.parameters || [])]
AllParams(pathParams, opParams) == Spread(pathParams) \o Spread(opParams)

\* JSON.stringify as far as the shape of the value goes: properties whose
\* value is undefined or a function are left out, such elements of an array
\* become null (GetEndpointDetailsTool.ts line 41).
RECURSIVE Serialize(_)
Serialize(v) ==
    IF v.t = "arr"
    THEN JArr([i \in 1..Len(v.c) |-> IF v.c[i].t \in {"undef", "func"} THEN JNull ELSE Serialize(v.c[i])])
    ELSE IF v.t = "obj"
    THEN LET keep == SelectSeq([i \in 1..Len(v.k) |-> i], LAMBDA i : v.c[i].t \notin {"undef", "func"})
         IN  JObj([i \in 1..Len(keep) |-> v.k[keep[i]]], [i \in 1..Len(keep) |-> Serialize(v.c[keep[i]])])
    ELSE v

\* getEndpointDetails(path, method, resolveRefs) once getSpec has returned spec
\* (own keys of paths only: no path the model asks for is an inherited name).
getEndpointDetails(spec, path, method, resolveRefs) ==
    IF spec.t \in {"null", "undef"} THEN Fail("TypeError")
    ELSE LET paths == Prop(spec, W("paths"))
             pathItem == IF paths.t \in {"null", "undef"} THEN JUndef ELSE Prop(paths, path)
             operation == Prop(pathItem, toLowerCase(method))
             pathParams == OrEmpty(Prop(pathItem, W("parameters")))
             opParams == OrEmpty(Prop(operation, W("parameters")))
             result == EndpointResult(path, method, operation, AllParams(pathParams, opParams))
             out == resolveAllRefs(spec, result, DefaultMaxDepth, 0, {}, <<>>)
         IN  IF ~Truthy(pathItem) THEN Fail("Path not found")
             ELSE IF ~Truthy(operation) THEN Fail("Method not found")
             ELSE IF ~Iterable(pathParams) \/ ~Iterable(opParams) THEN Fail("TypeError")
             ELSE IF ~resolveRefs THEN Ok(result)
             ELSE IF out.threw THEN Fail("URIError")
             ELSE Ok(out.v)

\* A query reads the cache and changes nothing, so its outcome does not depend
\* on the queries before it: a behaviour makes one.
NoQueryYet == reply = NoReply

\* The default page size and offset (lines 217-218; SearchEndpointsTool.ts
\* lines 74-75).
DefaultLimit == 20
DefaultOffset == 0

\* x || d for a number argument: absent and 0 both give d.
OrDefault(x, d) == IF Truthy(x) THEN x.n ELSE d

\* array.slice(from, to) for 0 <= from <= to.
Slice(seq, from, to) ==
    IF from >= Len(seq) THEN <<>>
    ELSE SubSeq(seq, from + 1, IF to < Len(seq) THEN to ELSE Len(seq))

\* new RegExp(pattern, 'i') throws SyntaxError for a malformed pattern; the
\* patterns of the model are words, optionally anchored by "^" in front or
\* "$" behind, and "(" stands for the malformed ones.
RegExpValid(pattern) == \A i \in 1..Len(pattern) : pattern[i] # "("

\* new RegExp(pattern, 'i').test(s) for a valid pattern.
RegExpTest(pattern, s) ==
    LET atStart == pattern # <<>> /\ Head(pattern) = "^"
        atEnd == pattern # <<>> /\ pattern[Len(pattern)] = "$"
        body == toLowerCase(SubSeq(pattern, IF atStart THEN 2 ELSE 1,
                                   IF atEnd THEN Len(pattern) - 1 ELSE Len(pattern)))
        text == toLowerCase(s)
    IN  \E i \in 0..(Len(text) - Len(body)) :
            /\ SubSeq(text, i + 1, i + Len(body)) = body
            /\ atStart => i = 0
            /\ atEnd => i + Len(body) = Len(text)

\* s.includes(part)
Includes(s, part) == \E i \in 0..(Len(s) - Len(part)) : SubSeq(s, i + 1, i + Len(part)) = part

\* Mutant of TagsMatch: every given tag is required.
TagsMatchAll(e, tags) ==
    /\ Truthy(e.tags)
    /\ \A i \in 1..Len(tags.c) : \E j \in 1..Len(e.tags.c) : e.tags.c[j] = tags.c[i]

\* Line 203: e.tags && options.tags.some(tag => e.tags.includes(tag)), for
\* e.tags an array of strings or absent.
TagsMatch(e, tags) ==
    /\ Truthy(e.tags)
    /\ \E i \in 1..Len(tags.c) : \E j \in 1..Len(e.tags.c) : e.tags.c[j] = tags.c[i]

\* Lines 211-212
DescriptionMatch(e, pattern) ==
    \/ Truthy(e.summary) /\ RegExpTest(pattern, e.summary.s)
    \/ Truthy(e.description) /\ RegExpTest(pattern, e.description.s)

\* Lines 186-214: the filters, in order.
FilterEndpoints(index, options) ==
    LET byPath == IF Truthy(options.pathPattern)
                  THEN SelectSeq(index, LAMBDA e : RegExpTest(options.pathPattern.s, e.path))
                  ELSE index
        byMethod == IF Truthy(options.method)
                    THEN SelectSeq(byPath, LAMBDA e : e.method = toUpperCase(options.method.s))
                    ELSE byPath
        byTags == IF Truthy(options.tags) /\ Len(options.tags.c) > 0
                  THEN SelectSeq(byMethod, LAMBDA e : TagsMatch(e, options.tags))
                  ELSE byMethod
    IN  IF Truthy(options.description)
        THEN SelectSeq(byTags, LAMBDA e : DescriptionMatch(e, options.description.s))
        ELSE byTags

\* Lines 216-223 (and 292-299): total, offset, limit and the slice.
Page(results, options) ==
    LET offset == OrDefault(options.offset, DefaultOffset)
        limit == OrDefault(options.limit, DefaultLimit)
    IN  [items |-> Slice(results, offset, offset + limit), total |-> Len(results)]

\* searchEndpoints(options) once getSpec has returned and the cache holds entry.
searchEndpoints(entry, options) ==
    IF Truthy(options.pathPattern) /\ ~RegExpValid(options.pathPattern.s) THEN Fail("SyntaxError")
    ELSE IF Truthy(options.description) /\ ~RegExpValid(options.description.s) THEN Fail("SyntaxError")
    ELSE Ok(Page(FilterEndpoints(entry.endpointIndex, options), options))

\* The arguments of search_endpoints.
Absent == {JUndef}
Limits == Absent \cup { JNum(n) : n \in 0..MaxLimit }
Offsets == Absent \cup { JNum(n) : n \in 0..MaxOffset } \cup { JNum(DefaultLimit + 1) }
PathPatterns == Absent \cup { JStr(W("pets")), JStr(W("PETS")), JStr(<<"^", "/", "users">>), JStr(W("(")) }
MethodFilters == Absent \cup { JStr(W("get")), JStr(W("POST")) }
TagFilters == Absent \cup { JArr(<<>>), JArr(<<JStr(W("write")), JStr(W("users"))>>) }
DescriptionPatterns == Absent \cup { JStr(W("LIST")), JStr(<<"pets", "$">>) }

SearchEndpointsInputs ==
    [ pathPattern : PathPatterns, method : MethodFilters, tags : TagFilters,
      description : DescriptionPatterns, limit : Limits, offset : Offsets ]

\* SearchEndpointsTool.execute(input); getSpec returns at line 39.
CallSearchEndpoints(input) ==
    LET out == searchEndpoints(cache[1], input)
        limit == OrDefault(input.limit, DefaultLimit)
        offset == OrDefault(input.offset, DefaultOffset)
    IN  /\ Fresh
        /\ NoQueryYet
        /\ reply' = IF out.threw
                    THEN [ op |-> "searchEndpoints", input |-> input, threw |-> TRUE,
                           error |-> out.error ]
                    ELSE [ op |-> "searchEndpoints", input |-> input, threw |-> FALSE,
                           error |-> "none", items |-> out.v.items, total |-> out.v.total,
                           limit |-> limit, offset |-> offset,
                           hasMore |-> offset + Len(out.v.items) < out.v.total ]
        /\ UNCHANGED <<cache, fetchPromise, promises, now, cacheTtl, apiKeys, transports, last, everCached,
                       resolver, answer>>

\* Mutant of PropertyMatch: the property name must equal the filter.
PropertyMatchExact(schemaInfo, propLower) ==
    /\ Truthy(schemaInfo.properties)
    /\ \E i \in 1..Len(schemaInfo.properties.c) :
          toLowerCase(schemaInfo.properties.c[i].s) = propLower

\* Line 288: s.properties && s.properties.some(p => p.toLowerCase().includes(propLower))
PropertyMatch(schemaInfo, propLower) ==
    /\ Truthy(schemaInfo.properties)
    /\ \E i \in 1..Len(schemaInfo.properties.c) :
          Includes(toLowerCase(schemaInfo.properties.c[i].s), propLower)

\* Lines 276-290: the filters, in order.
FilterSchemas(index, options) ==
    LET byName == IF Truthy(options.namePattern)
                  THEN SelectSeq(index, LAMBDA x : RegExpTest(options.namePattern.s, x.name))
                  ELSE index
    IN  IF Truthy(options.propertyName)
        THEN SelectSeq(byName, LAMBDA x : PropertyMatch(x, toLowerCase(options.propertyName.s)))
        ELSE byName

\* searchSchemas(options) once getSpec has returned and the cache holds entry.
searchSchemas(entry, options) ==
    IF Truthy(options.namePattern) /\ ~RegExpValid(options.namePattern.s) THEN Fail("SyntaxError")
    ELSE Ok(Page(FilterSchemas(entry.schemaIndex, options), options))

\* The arguments of search_schemas.
NamePatterns == Absent \cup { JStr(<<>>), JStr(W("pet")), JStr(<<"^", "A">>), JStr(W("(")) }
PropertyNames == Absent \cup { JStr(<<>>), JStr(W("NAME")), JStr(W("id")) }

SearchSchemasInputs ==
    [ namePattern : NamePatterns, propertyName : PropertyNames, limit : Limits, offset : Offsets ]

\* SearchSchemasTool.execute(input); getSpec returns at line 39.
CallSearchSchemas(input) ==
    LET out == searchSchemas(cache[1], input)
        limit == OrDefault(input.limit, DefaultLimit)
        offset == OrDefault(input.offset, DefaultOffset)
    IN  /\ Fresh
        /\ NoQueryYet
        /\ reply' = IF out.threw
                    THEN [ op |-> "searchSchemas", input |-> input, threw |-> TRUE,
                           error |-> out.error ]
                    ELSE [ op |-> "searchSchemas", input |-> input, threw |-> FALSE,
                           error |-> "none", items |-> out.v.items, total |-> out.v.total,
                           limit |-> limit, offset |-> offset,
                           hasMore |-> offset + Len(out.v.items) < out.v.total ]
        /\ UNCHANGED <<cache, fetchPromise, promises, now, cacheTtl, apiKeys, transports, last, everCached,
                       resolver, answer>>

\* v[key] for a non-nullish v and any key: an own property, or one inherited
\* from Object.prototype, or undefined.
Lookup(v, key) ==
    IF InObject(v, key) THEN Member(v, key)
    ELSE IF key \in InheritedKeys THEN JFunc(key)
    ELSE JUndef

\* getSchemaDetails(schemaName, resolveRefs, maxDepth) once getSpec has
\* returned spec; the resolver is a new one (line 314).
getSchemaDetails(spec, schemaName, resolveRefs, maxDepth) ==
    IF spec.t \in {"null", "undef"} THEN Fail("TypeError")
    ELSE LET schemas == ComponentsSchemas(spec)
             schema == IF schemas.t \in {"null", "undef"} THEN JUndef ELSE Lookup(schemas, schemaName)
             out == resolveAllRefs(spec, schema, maxDepth, 0, {}, <<>>)
         IN  IF ~Truthy(schema) THEN Fail("Schema not found")
             ELSE IF ~resolveRefs
             THEN Ok(O(<< <<W("name"), JStr(schemaName)>>, <<W("schema"), schema>> >>))
             ELSE IF out.threw THEN Fail("URIError")
             ELSE Ok(O(<< <<W("name"), JStr(schemaName)>>, <<W("schema"), out.v>> >>))

\* part_000 line 56: input.maxDepth || 5
ToolMaxDepth(maxDepth) == OrDefault(maxDepth, DefaultMaxDepth)

\* The arguments of get_schema_details; resolveRefs is absent, true or false.
SchemaNames == { W("Pet"), W("Alias"), W("User"), W("Gone"), W("Nope"), W("constructor") }
Flags == {"absent", "true", "false"}
MaxDepths == Absent \cup { JNum(n) : n \in 0..MaxDepth }

\* GetSchemaDetailsTool.execute(input); getSpec returns at line 39.
CallGetSchemaDetails(schemaName, flag, maxDepth) ==
    LET out == getSchemaDetails(Body(cache[1].spec), schemaName, flag # "false", ToolMaxDepth(maxDepth))
    IN  /\ Fresh
        /\ NoQueryYet
        /\ reply' = [ op |-> "getSchemaDetails", schemaName |-> schemaName,
                      resolveRefs |-> flag, maxDepth |-> maxDepth,
                      threw |-> out.threw, error |-> out.error, v |-> out.v ]
        /\ UNCHANGED <<cache, fetchPromise, promises, now, cacheTtl, apiKeys, transports, last, everCached,
                       resolver, answer>>

\* The documents a query finds in the cache.
QueryDocuments == {"api", "pets", "users", "many", "sparse", "bare"}

\* The arguments of the queries.
QueryPaths == { <<"/", "pets">>, <<"/", "users">>, <<"/", "Pets">>, <<"/", "nope">> }
QueryMethods == { W("get"), W("GET"), W("Get"), W("post"), W("delete"), W("put"),
                  W("parameters"), W("summary"), W("SUMMARY"), W("tags") }

\* await openAPIManager.getEndpointDetails(path, method, resolveRefs); getSpec
\* returns at line 39.
CallGetEndpointDetails(path, method, resolveRefs) ==
    LET out == getEndpointDetails(Body(cache[1].spec), path, method, resolveRefs)
    IN  /\ Fresh
        /\ NoQueryYet
        /\ reply' = [ op |-> "getEndpointDetails", path |-> path, method |-> method,
                      resolveRefs |-> resolveRefs,
                      threw |-> out.threw, error |-> out.error, v |-> out.v ]
        /\ UNCHANGED <<cache, fetchPromise, promises, now, cacheTtl, apiKeys, transports, last, everCached,
                       resolver, answer>>

\* Mutant of filterPaths: every entry is kept.
filterPathsKeepsAll(paths, pattern) ==
    IF ~RegExpValid(pattern) THEN Fail("SyntaxError") ELSE Ok(paths)

\* Lines 362-373: new RegExp(pattern, 'i') throws on an invalid pattern; the
\* entries whose key matches are assigned to a new object, in order.
filterPaths(paths, pattern) ==
    IF ~RegExpValid(pattern) THEN Fail("SyntaxError")
    ELSE Ok(OwnOrder(AssignAll(O(<<>>),
                               SelectSeq(ObjectEntries(paths),
                                         LAMBDA e : RegExpTest(pattern, e[1])))))

\* x || {} (lines 346, 381)
OrEmptyObject(v) == IF Truthy(v) THEN v ELSE O(<<>>)

\* Lines 378-383: { ...spec, paths: this.filterPaths(spec.paths || {}, pattern) }
filterSpecByPath(spec, pattern) ==
    LET filtered == filterPaths(OrEmptyObject(Prop(spec, W("paths"))), pattern)
    IN  IF filtered.threw THEN filtered
        ELSE Ok(OwnOrder(Assign(AssignAll(O(<<>>), ObjectEntries(spec)), W("paths"), filtered.v)))

\* The message of the error thrown at line 355, without the section it echoes.
UnknownSection == "Unknown section. Valid sections: info, paths, components, tags, servers, full"

\* Lines 330-357, after getSpec returned a non-null document.
getSpecSection(spec, section, pathFilter) ==
    IF ~Truthy(section) \/ section = JStr(W("full"))
    THEN IF Truthy(pathFilter) THEN filterSpecByPath(spec, pathFilter.s) ELSE Ok(spec)
    ELSE CASE section = JStr(W("info")) -> Ok(Prop(spec, W("info")))
           [] section = JStr(W("paths")) ->
                IF Truthy(pathFilter)
                THEN filterPaths(OrEmptyObject(Prop(spec, W("paths"))), pathFilter.s)
                ELSE Ok(Prop(spec, W("paths")))
           [] section = JStr(W("components")) -> Ok(Prop(spec, W("components")))
           [] section = JStr(W("tags")) -> Ok(Prop(spec, W("tags")))
           [] section = JStr(W("servers")) -> Ok(Prop(spec, W("servers")))
           [] OTHER -> Fail(UnknownSection)

\* The arguments of get_openapi_spec: both are optional strings.
Sections ==
    Absent \cup { JStr(<<>>), JStr(W("full")), JStr(W("info")), JStr(W("paths")),
                  JStr(W("components")), JStr(W("tags")), JStr(W("servers")),
                  JStr(W("Paths")), JStr(W("nope")) }
PathFilters ==
    Absent \cup { JStr(<<>>), JStr(<<"^", "/", "users">>), JStr(W("PETS")), JStr(W("(")),
                  JStr(W("nope")) }

\* GetOpenAPISpecTool.execute(input); getSpec returns at line 39.
CallGetSpecSection(section, pathFilter) ==
    LET out == getSpecSection(Body(cache[1].spec), section, pathFilter)
    IN  /\ Fresh
        /\ NoQueryYet
        /\ reply' = [ op |-> "getSpecSection", section |-> section, pathFilter |-> pathFilter,
                      threw |-> out.threw, error |-> out.error, v |-> out.v ]
        /\ UNCHANGED <<cache, fetchPromise, promises, now, cacheTtl, apiKeys, transports, last, everCached,
                       resolver, answer>>

\* A fresh cache entry for one of the documents, installed by a getSpec call.
InitQuery ==
    /\ now = 0
    /\ cacheTtl = MaxTtl
    /\ apiKeys = {}
    /\ transports = {}
    /\ \E d \in QueryDocuments :
          /\ cache = <<CachedSpec(d)>>
          /\ last = [ via |-> "fetch", kind |-> "doc", doc |-> d, fetch |-> "ok",
                      fetched |-> d, before |-> NoDoc, cleared |-> FALSE,
                      ran |-> <<"buildEndpointIndex", "buildSchemaIndex">> ]
    /\ fetchPromise = 0
    /\ promises = [i \in PromiseIds |-> FreePromise]
    /\ everCached = TRUE
    /\ resolver = NoResolver
    /\ answer = NoAnswer
    /\ reply = NoReply

NextQuery ==
    \/ \E path \in QueryPaths, method \in QueryMethods, resolveRefs \in BOOLEAN :
          CallGetEndpointDetails(path, method, resolveRefs)
    \/ \E input \in SearchEndpointsInputs : CallSearchEndpoints(input)
    \/ \E input \in SearchSchemasInputs : CallSearchSchemas(input)
    \/ \E schemaName \in SchemaNames, flag \in Flags, maxDepth \in MaxDepths :
          CallGetSchemaDetails(schemaName, flag, maxDepth)
    \/ \E section \in Sections, pathFilter \in PathFilters :
          CallGetSpecSection(section, pathFilter)
    \/ NoQueryYet /\ clearCache

SpecQuery == InitQuery /\ [][NextQuery]_vars

-----------------------------------------------------------------------------
(* The HTTP transport: API keys and sessions *)

MaxSessions == 2

\* The values API_KEYS is configured with: none, one key, two keys.  Line
\* 61-64 drops empty keys.
ConfiguredKeys == { {}, {W("k1")}, {W("k1"), W("k2")} }

\* The session ids randomUUID() produces.
SessionIds == { W(ToString(i)) : i \in 1..MaxSessions }

\* Mutant of checkApiKey: any non-empty X-API-Key header passes.
checkApiKeyAnyHeader(req) ==
    \/ apiKeys = {}
    \/ Truthy(req.headerKey)
    \/ Truthy(req.queryKey) /\ req.queryKey.s \in apiKeys

\* Lines 116-124.
checkApiKey(req) ==
    \/ apiKeys = {}
    \/ Truthy(req.headerKey) /\ req.headerKey.s \in apiKeys
    \/ Truthy(req.queryKey) /\ req.queryKey.s \in apiKeys

\* What the server did with a request: the status it answered with
\* ("transport" when a session transport wrote the response), the session
\* whose transport got the request, the session created, the table afterwards.
Handled(status, passed, created, table) ==
    [ status |-> status, passed |-> passed, created |-> created, table |-> table ]

NoSession == <<>>

\* transports[sessionId] for a non-empty sessionId: a transport, a function
\* inherited from Object.prototype, or undefined.
TransportOf(sessionId) ==
    IF sessionId \in transports THEN "transport"
    ELSE IF sessionId \in InheritedKeys THEN "func"
    ELSE "undef"

\* Lines 150-210; sid is the id randomUUID() gives a new session.  Calling
\* handleRequest on an inherited function throws, as does readBody (lines
\* 132-145) on a POST body that is not JSON, and the server's catch block
\* answers 500 (lines 262-267).
handleMcpRequest(req, sid) ==
    IF ~checkApiKey(req) THEN Handled("401", NoSession, NoSession, transports)
    ELSE IF req.body = "invalid" THEN Handled("500", NoSession, NoSession, transports)
    ELSE IF Truthy(req.sessionId) /\ TransportOf(req.sessionId.s) # "undef"
    THEN IF TransportOf(req.sessionId.s) = "func"
         THEN Handled("500", NoSession, NoSession, transports)
         ELSE Handled("transport", req.sessionId.s, NoSession, transports)
    ELSE IF ~Truthy(req.sessionId) /\ req.method = "POST" /\ req.body = "initialize"
    THEN Handled("transport", sid, sid, transports \cup {sid})
    ELSE IF ~Truthy(req.sessionId) THEN Handled("400", NoSession, NoSession, transports)
    ELSE Handled("404", NoSession, NoSession, transports)

\* Lines 225-268: the request listener of the HTTP server.
Listener(req, sid) ==
    IF req.method = "OPTIONS" THEN Handled("204", NoSession, NoSession, transports)
    ELSE IF req.pathname = "/health" THEN Handled("200", NoSession, NoSession, transports)
    ELSE IF req.pathname = "/.well-known/x" THEN Handled("404", NoSession, NoSession, transports)
    ELSE IF req.pathname = "/mcp" THEN handleMcpRequest(req, sid)
    ELSE Handled("404", NoSession, NoSession, transports)

\* The requests: method and body, path, X-API-Key header, api_key query
\* parameter, Mcp-Session-Id header.  Only a POST has a body; the requests to
\* the other paths vary in method and X-API-Key header only.
Requests ==
    { r \in [ method : {"GET", "POST", "OPTIONS"},
              body : {"none", "initialize", "other", "invalid"},
              pathname : {"/mcp", "/health", "/.well-known/x"},
              headerKey : Absent \cup { JStr(W("k1")), JStr(W("bad")) },
              queryKey : Absent \cup { JStr(W("k2")), JStr(W("bad")) },
              sessionId : Absent \cup { JStr(id) : id \in SessionIds \cup {W("constructor")} } ] :
          /\ (r.body = "none") <=> (r.method # "POST")
          /\ r.pathname # "/mcp" => r.queryKey = JUndef /\ r.sessionId = JUndef }

\* The ids randomUUID() may give the session req creates: an unused one; no
\* id is drawn for a request that creates no session.
NewIds(req) ==
    IF Listener(req, W("new")).created = NoSession THEN {NoSession}
    ELSE SessionIds \ transports

\* The server receives req and answers it.
Request(req) ==
    /\ \E sid \in NewIds(req) :
          LET out == Listener(req, sid)
          IN  /\ transports' = out.table
              /\ reply' = [ op |-> "http", req |-> req, status |-> out.status,
                            passed |-> out.passed, created |-> out.created,
                            changed |-> out.table # transports ]
    /\ UNCHANGED <<cache, fetchPromise, promises, now, cacheTtl, apiKeys, last, everCached,
                   resolver, answer>>

\* Lines 178-184: a session's transport closes.
onclose(sid) ==
    /\ sid \in transports
    /\ transports' = transports \ {sid}
    /\ UNCHANGED <<cache, fetchPromise, promises, now, cacheTtl, apiKeys, last, everCached,
                   resolver, answer, reply>>

\* Lines 186-190: the transport of a registered session reports an error.
onerror(sid) ==
    /\ sid \in transports
    /\ transports' = transports \ {sid}
    /\ UNCHANGED <<cache, fetchPromise, promises, now, cacheTtl, apiKeys, last, everCached,
                   resolver, answer, reply>>

InitHttp ==
    /\ cache = <<>>
    /\ fetchPromise = 0
    /\ promises = [i \in PromiseIds |-> FreePromise]
    /\ now = 0
    /\ cacheTtl = MaxTtl
    /\ apiKeys \in ConfiguredKeys
    /\ transports = {}
    /\ last = NoCall
    /\ everCached = FALSE
    /\ resolver = NoResolver
    /\ answer = NoAnswer
    /\ reply = NoReply

NextHttp ==
    \/ \E req \in Requests : Request(req)
    \/ \E sid \in SessionIds : onclose(sid)
    \/ \E sid \in SessionIds : onerror(sid)

SpecHttp == InitHttp /\ [][NextHttp]_vars

-----------------------------------------------------------------------------
(* Properties of the cache *)

\* The fetches in flight: promises fetchSpec() returned that have not settled.
InFlight == {i \in PromiseIds : promises[i].state = "pending"}

\* The fetches whose starting call has not run its continuation yet.
Unhandled == {i \in PromiseIds : promises[i].state # "free" /\ ~promises[i].handled}

\* A step that settles a getSpec call waiting on promise i (the call that
\* started the fetch, or one that joined it).
SettlesOn(i) == promises[i].state \in {"ok", "fail"} /\ promises'[i] # promises[i]

\* C1: single flight.  At most one fetch is in flight in every reachable
\* state, it is the one fetchPromise names, and a step that starts a fetch is
\* taken only when none is in flight, so a call that arrives during a fetch
\* joins it.
SingleFlight ==
    /\ [](Cardinality(InFlight) <= 1 /\ Cardinality(Unhandled) <= 1)
    /\ [](\A i \in Unhandled : fetchPromise = i)
    /\ [][\A i \in PromiseIds :
            (promises[i].state = "free" /\ promises'[i].state = "pending")
               => (InFlight = {} /\ Unhandled = {})]_vars

\* C1 witness: three overlapping calls wait on one fetch.
SingleFlightWitness ==
    \E i \in PromiseIds : promises[i].state = "pending" /\ promises[i].joined >= 2
                          /\ Cardinality(InFlight) = 1

\* C2 (as claimed): when a fetch fails while a cache entry exists, every call
\* waiting on it, the one that started it and the ones that joined it, gets
\* the stale document and none gets the failure.
StaleServedToEveryWaiter ==
    (last.via \in {"fetch", "join"} /\ last.fetch = "fail" /\ last.before # NoDoc)
        => (last.kind = "doc" /\ last.doc = last.before)

ColdFailurePropagates ==
    [][\A i \in PromiseIds :
          (SettlesOn(i) /\ promises[i].state = "fail" /\ cache = <<>>)
             => (last'.kind = "err" /\ cache' = <<>>)]_vars

\* C4 witness: a call that joined a failing cold-start fetch got the failure.
ColdFailureWitness ==
    /\ last.via = "join" /\ last.fetch = "fail" /\ last.before = NoDoc
    /\ last.kind = "err" /\ cache = <<>> /\ ~everCached

\* C5: in a state whose entry has now - fetchedAt < TTL no fetch is started and
\* no call suspends; a getSpec call made there settles in the same step with
\* the entry's document.  A fetch is started only when there is no entry or
\* its age is >= TTL, and no fetch is in flight.
FreshServedWithoutFetch ==
    /\ [][(cache # <<>> /\ now - cache[1].fetchedAt < cacheTtl)
            => /\ \A i \in PromiseIds :
                    /\ promises'[i].state = "pending" => promises[i].state = "pending"
                    /\ promises'[i].joined <= promises[i].joined
               /\ fetchPromise' = fetchPromise
               /\ (last' # last /\ \A i \in PromiseIds : promises[i].state \notin {"ok", "fail"})
                    => last' = [ via |-> "cached", kind |-> "doc", doc |-> cache[1].spec,
                                 fetch |-> "free", fetched |-> NoDoc,
                                 before |-> cache[1].spec, cleared |-> FALSE,
                                 ran |-> <<>> ]]_vars
    /\ [][\A i \in PromiseIds :
            (promises[i].state = "free" /\ promises'[i].state = "pending")
               => /\ cache = <<>> \/ now - cache[1].fetchedAt >= cacheTtl
                  /\ fetchPromise = 0
                  /\ InFlight = {}]_vars
    /\ [](last.via = "cached" => (last.kind = "doc" /\ last.doc = last.before))

\* C5 witness: a call was served from a fresh entry while nothing is in flight.
FreshServedWitness ==
    /\ last.via = "cached" /\ last.kind = "doc"
    /\ cache # <<>> /\ now - cache[1].fetchedAt < cacheTtl /\ cache[1].spec = last.doc
    /\ \A i \in PromiseIds : promises[i].state = "free"

\* C6: the indexes of a cache entry are the ones built from the entry's own
\* document, and the cache changes only to null or to an entry built whole
\* from the document of the fetch being handled.
IndexesDerivedFromDocument ==
    /\ [](cache # <<>> =>
            /\ ~buildEndpointIndex(Body(cache[1].spec)).threw
            /\ ~buildSchemaIndex(Body(cache[1].spec)).threw
            /\ cache[1].endpointIndex = buildEndpointIndex(Body(cache[1].spec)).v
            /\ cache[1].schemaIndex = buildSchemaIndex(Body(cache[1].spec)).v)
    /\ [][cache' # cache =>
            \/ cache' = <<>>
            \/ \E i \in Unhandled :
                  /\ promises[i].state = "ok"
                  /\ cache' = << [ spec |-> promises[i].doc,
                                   fetchedAt |-> now,
                                   endpointIndex |-> buildEndpointIndex(Body(promises[i].doc)).v,
                                   schemaIndex |-> buildSchemaIndex(Body(promises[i].doc)).v ] >>]_vars

\* C6 witness: a refresh replaced the entry of one document by the entry of
\* another.
IndexesDerivedWitness ==
    /\ last.via = "fetch" /\ last.kind = "doc"
    /\ last.before # NoDoc /\ last.before # last.doc
    /\ cache # <<>> /\ cache[1].spec = last.doc
    /\ cache[1].endpointIndex # <<>>

\* C7: clearCache empties the cache and leaves an in-flight fetch attached: it
\* is still the one fetchPromise names, and when it resolves and the indexes
\* build, the continuation installs its entry and every waiting call gets its
\* document.
ClearCacheKeepsFetch ==
    /\ [](\A i \in Unhandled : promises[i].cleared => (fetchPromise = i /\ cache = <<>>))
    /\ [][\A i \in PromiseIds :
            (SettlesOn(i) /\ promises[i].cleared /\ TryCompletes(promises[i]))
               => /\ last'.kind = "doc"
                  /\ last'.doc = promises[i].doc
                  /\ cache' # <<>>
                  /\ cache'[1].spec = promises[i].doc
                  /\ ~promises[i].handled => cache'[1].fetchedAt = now]_vars

\* C7 witness: a call that joined a fetch during which clearCache ran got the
\* document, and the entry is installed.
ClearCacheWitness ==
    /\ last.cleared /\ last.via = "join" /\ last.kind = "doc"
    /\ cache # <<>> /\ cache[1].spec = last.doc

\* C8: a refresh that fails, with no clearCache since it started, returns the
\* document of the entry that existed when it started and leaves that entry as
\* it was.
StaleFallbackKeepsEntry ==
    [][\A i \in Unhandled :
          (SettlesOn(i) /\ promises[i].state = "fail" /\ ~promises[i].cleared
           /\ promises[i].before # <<>>)
             => /\ cache' = promises[i].before
                /\ last'.kind = "doc"
                /\ last'.doc = promises[i].before[1].spec]_vars

\* C8 witness: the call that started a failed refresh got the stale document.
StaleFallbackWitness ==
    /\ last.via = "fetch" /\ last.fetch = "fail" /\ ~last.cleared
    /\ last.kind = "doc" /\ last.before = last.doc
    /\ cache # <<>> /\ cache[1].spec = last.doc /\ cache[1].fetchedAt < now

\* C28: the continuation of the call that started a fetch resets fetchPromise
\* to null whatever the outcome (entry installed, stale fallback, failure with
\* no entry, index build that throws); fetchPromise never names a fetch whose
\* continuation has run, a call joins only a fetch that has not settled, and
\* once no fetch is outstanding a call that finds no fresh entry can start one.
GuardNeverSticks ==
    /\ [][\A i \in Unhandled : SettlesOn(i) => fetchPromise' = 0]_vars
    /\ [](fetchPromise # 0 => fetchPromise \in Unhandled)
    /\ [][\A i \in PromiseIds :
            promises'[i].joined > promises[i].joined => promises[i].state = "pending"]_vars
    /\ []((~Draining /\ InFlight = {} /\ ~Fresh) => ENABLED GetSpecFetch)

\* C28 witness: after a cold start that failed, a new fetch is in flight.
GuardNeverSticksWitness ==
    /\ last.via = "fetch" /\ last.kind = "err" /\ last.fetch = "fail"
    /\ cache = <<>>
    /\ fetchPromise # 0
    /\ promises[fetchPromise].state = "pending"

\* C29: whenever a getSpec call settles with a document (the call that
\* started the fetch, a call that joined it, a call served from the cache), a
\* cache entry exists at that moment and the document is the entry's.
ReturnedDocumentIsCached ==
    [][(last' # last /\ last'.kind = "doc") =>
          (cache' # <<>> /\ cache'[1].spec = last'.doc)]_vars

-----------------------------------------------------------------------------
(* Properties of the resolver *)

OnPath(ref, path) == \E i \in 1..Len(path) : path[i] = ref

NoDuplicates(path) == \A i, j \in 1..Len(path) : path[i] = path[j] => i = j

SchemaOf(d, name) == Prop(ComponentsSchemas(Body(d)), W(name))

\* C9 as stated: in every completed call, for every maxDepth, each $ref node
\* whose pointer is being resolved on the current path has become a circular
\* marker.  (Violated: at the depth limit such a node is left as it is.)
CycleAlwaysMarked ==
    \A ev \in answer.log :
        (ev.ref # <<>> /\ OnPath(ev.ref, ev.path)) => ev.e = "circular"

\* C9, amended: every call completes with no pointer twice on a resolution
\* path (so nesting is bounded by the number of distinct pointers, whatever
\* maxDepth is), and a $ref node reached below the depth limit whose pointer
\* is on the current path is never resolved or expanded again: it becomes a
\* circular marker.
CycleCutByMarker ==
    \A ev \in answer.log :
        /\ NoDuplicates(ev.path)
        /\ ev.e \in {"expand", "throw"} => ~OnPath(ev.ref, ev.path)
        /\ (ev.e # "raw" /\ OnPath(ev.ref, ev.path)) => ev.e = "circular"

\* Schema A of the A -> B -> A document, resolved with a maxDepth above the
\* number of distinct pointers: B, then A are expanded and the second B is
\* a marker.
CycleCutWitness ==
    /\ resolver.spec = "cycle"
    /\ answer.called /\ ~answer.threw
    /\ answer.obj = SchemaOf("cycle", "A")
    /\ answer.maxDepth > 2
    /\ answer.v = O(<< <<W("x"), O(<< <<W("y"), O(<< <<W("x"),
                        CircularRef(SchemaPointer("B"))>> >>)>> >>)>> >>)

\* C10: in a call with maxDepth k no event lies below more than k nested
\* substitutions, a $ref node is examined only below fewer than k, a value is
\* returned raw exactly below k substitutions (however deep in containers and
\* sequences it lies), and for k = 0 the result is the argument.
DepthLimitsSubstitutions ==
    \A ev \in answer.log :
        /\ Len(ev.path) <= answer.maxDepth
        /\ ev.e \in {"expand", "circular", "throw"} => Len(ev.path) < answer.maxDepth
        /\ ev.e = "raw" => Len(ev.path) = answer.maxDepth
        /\ answer.maxDepth = 0 => (~answer.threw /\ answer.v = answer.obj)

\* { a: [ {$ref: Chain3} ] } with maxDepth 1: the reference below a container
\* and a sequence is still substituted, and its target, itself a $ref node, is
\* returned raw.
DepthLimitWitness ==
    /\ resolver.spec = "refs"
    /\ answer.called /\ ~answer.threw
    /\ answer.obj = SchemaOf("refs", "Nested")
    /\ answer.maxDepth = 1
    /\ answer.v = O(<< <<W("a"), JArr(<<Ref(SchemaPointer("Leaf"))>>)>> >>)

\* C11: when a call of resolveAllRefs throws, every pointer it marked has been
\* released: visitedRefs is what it was when the call was made.  (Violated:
\* line 71 is skipped when line 69 or line 70 throws.)
MarkReleasedOnThrow == answer.threw => answer.after = answer.before

\* C12: resolveRef never raises, so no call of resolveAllRefs is aborted: a
\* pointer that cannot be followed yields {$unresolvableRef: pointer}.
\* (Violated: decodeURIComponent at line 26 throws on a malformed escape.)
ResolveRefNeverRaises ==
    /\ ~answer.threw
    /\ \A ev \in answer.log : ev.e # "throw"

\* The keys a pointer names, as C13 reads them: each segment percent-decoded,
\* then ~1 and ~0 unescaped.
PointerKeys(ref) ==
    LET segments == Split(SubSeq(ref, 3, Len(ref)))
    IN  [i \in 1..Len(segments) |-> Unescape(decodeURIComponent(segments[i]).v)]

Decodable(ref) ==
    \A i \in 1..Len(Split(SubSeq(ref, 3, Len(ref)))) :
        ~decodeURIComponent(Split(SubSeq(ref, 3, Len(ref)))[i]).threw

\* The value a chain of keys leads to in a document: <<V>>, or <<>> when a step
\* meets a non-container or a container lacking the key.
RECURSIVE Follow(_, _)
Follow(v, keys) ==
    IF keys = <<>> THEN <<v>>
    ELSE IF v.t = "obj" /\ HasKey(v, Head(keys)) THEN Follow(Prop(v, Head(keys)), Tail(keys))
    ELSE IF v.t = "arr" /\ \E i \in 1..Len(v.c) : Head(keys) = W(ToString(i - 1))
    THEN Follow(v.c[CHOOSE i \in 1..Len(v.c) : Head(keys) = W(ToString(i - 1))], Tail(keys))
    ELSE <<>>

\* C13: resolveRef on a pointer '#/s1/s2/...' with well-formed segments
\* returns the value the decoded and unescaped segments lead to, and
\* {$unresolvableRef: P} when a step meets a non-container or a missing key.
\* (Violated: line 26 unescapes before it percent-decodes, and line 27 accepts
\* inherited property names.)
ResolveRefFollowsKeys ==
    (reply.op = "resolveRef" /\ StartsWithHashSlash(reply.ref) /\ Decodable(reply.ref)) =>
        LET target == Follow(Body(resolver.spec), PointerKeys(reply.ref))
        IN  /\ ~reply.threw
            /\ reply.v = IF target # <<>> THEN target[1] ELSE Unresolvable(reply.ref)

VerbsOn(pathItem) == { methods[i] : i \in { j \in 1..Len(methods) : Truthy(Prop(pathItem, W(methods[j]))) } }

\* C15: getEndpointDetails succeeds iff path is a key of paths and method,
\* lower-cased, is a verb with an operation on that path item; otherwise it
\* fails with a not-found error.  (Violated: line 237 indexes the path item
\* with any lower-cased string, so 'summary' and 'parameters' are found.)
EndpointFoundByVerbOnly ==
    reply.op = "getEndpointDetails" =>
        LET paths == Prop(Body(cache[1].spec), W("paths"))
            found == /\ HasKey(paths, reply.path)
                     /\ \E verb \in VerbsOn(Prop(paths, reply.path)) : toLowerCase(reply.method) = W(verb)
        IN  /\ ~reply.threw <=> found
            /\ reply.threw => reply.error \in {"Path not found", "Method not found"}

\* C16 (search_endpoints, search_schemas): the page is the elements [offset, offset+limit) of
\* the filtered sequence, total is the length of the filtered sequence, hasMore
\* is offset + length(page) < total, and an absent limit or offset stands for
\* 20 or 0.  (Violated: `limit || 20` also replaces a supplied limit of 0.)
PageIsRequestedWindow ==
    (reply.op \in {"searchEndpoints", "searchSchemas"} /\ ~reply.threw) =>
        LET filtered == IF reply.op = "searchEndpoints"
                        THEN FilterEndpoints(cache[1].endpointIndex, reply.input)
                        ELSE FilterSchemas(cache[1].schemaIndex, reply.input)
            limit == IF reply.input.limit = JUndef THEN DefaultLimit ELSE reply.input.limit.n
            offset == IF reply.input.offset = JUndef THEN DefaultOffset ELSE reply.input.offset.n
        IN  /\ reply.items = Slice(filtered, offset, offset + limit)
            /\ reply.total = Len(filtered)
            /\ reply.hasMore = (offset + Len(reply.items) < reply.total)
            /\ reply.limit = limit
            /\ reply.offset = offset

\* An index entry passes every supplied filter of a search_endpoints input (a
\* filter is supplied when it is a non-empty string or a non-empty tag list).
PassesFilters(e, input) ==
    /\ Truthy(input.pathPattern) => RegExpTest(input.pathPattern.s, e.path)
    /\ Truthy(input.method) => toLowerCase(e.method) = toLowerCase(input.method.s)
    /\ (Truthy(input.tags) /\ input.tags.c # <<>>) =>
          /\ e.tags # JUndef
          /\ {e.tags.c[j] : j \in 1..Len(e.tags.c)} \cap {input.tags.c[i] : i \in 1..Len(input.tags.c)} # {}
    /\ Truthy(input.description) =>
          \/ e.summary # JUndef /\ RegExpTest(input.description.s, e.summary.s)
          \/ e.description # JUndef /\ RegExpTest(input.description.s, e.description.s)

\* C17: the result of searchEndpoints is the window the call reports over the
\* index entries that pass every supplied filter, in index order, and total
\* counts exactly those entries.
FiltersComposeWithAnd ==
    (reply.op = "searchEndpoints" /\ ~reply.threw) =>
        LET kept == SelectSeq(cache[1].endpointIndex, LAMBDA e : PassesFilters(e, reply.input))
        IN  /\ reply.total = Len(kept)
            /\ reply.items = Slice(kept, reply.offset, reply.offset + reply.limit)

\* All four filters supplied, two tags of which the entry has one: exactly
\* POST /pets of the four entries is kept.
FiltersComposeWitness ==
    /\ reply.op = "searchEndpoints" /\ ~reply.threw
    /\ Truthy(reply.input.pathPattern) /\ Truthy(reply.input.method)
    /\ Truthy(reply.input.description)
    /\ Truthy(reply.input.tags) /\ Len(reply.input.tags.c) = 2
    /\ Len(cache[1].endpointIndex) = 4
    /\ reply.total = 1
    /\ Len(reply.items) = 1 /\ reply.items[1].method = W("POST")

\* The verbs in the order the index lists them.
VerbOrder == <<"GET", "POST", "PUT", "PATCH", "DELETE", "OPTIONS", "HEAD", "TRACE">>

VerbRank(method) == CHOOSE i \in 1..Len(VerbOrder) : method = W(VerbOrder[i])

\* C18: the endpoint index holds one entry per (path, verb) with an operation
\* in the document and nothing else, methods in upper case, paths in document
\* order and the verbs of a path in the fixed order.
OneEntryPerPathAndVerb ==
    cache # <<>> =>
        LET index == cache[1].endpointIndex
            paths == Prop(Body(cache[1].spec), W("paths"))
        IN  /\ \A i \in 1..Len(index) :
                  /\ HasKey(paths, index[i].path)
                  /\ \E r \in 1..Len(VerbOrder) : index[i].method = W(VerbOrder[r])
                  /\ Truthy(Prop(Prop(paths, index[i].path), toLowerCase(index[i].method)))
            /\ \A n \in 1..Len(ObjectKeys(paths)) : \A r \in 1..Len(VerbOrder) :
                  (Truthy(paths.c[n]) /\ Truthy(Prop(paths.c[n], toLowerCase(W(VerbOrder[r]))))) =>
                      Cardinality({ i \in 1..Len(index) :
                          index[i].path = paths.k[n] /\ index[i].method = W(VerbOrder[r]) }) = 1
            /\ \A i, j \in 1..Len(index) : i < j =>
                  \/ KeyIndex(paths, index[i].path) < KeyIndex(paths, index[j].path)
                  \/ /\ index[i].path = index[j].path
                     /\ VerbRank(index[i].method) < VerbRank(index[j].method)

\* paths {'/pets': {get, post}}: a search without filters lists exactly GET
\* /pets, then POST /pets.
OneEntryPerPathAndVerbWitness ==
    /\ cache # <<>> /\ cache[1].spec = "pets"
    /\ reply.op = "searchEndpoints" /\ ~reply.threw
    /\ reply.items = cache[1].endpointIndex
    /\ Len(reply.items) = 2
    /\ reply.items[1].path = <<"/", "pets">> /\ reply.items[1].method = W("GET")
    /\ reply.items[2].path = <<"/", "pets">> /\ reply.items[2].method = W("POST")

\* A key of components.schemas whose value is a top-level $ref node.
IsTopLevelRef(schemas, name) == HasKey(schemas, name) /\ HasKey(Prop(schemas, name), W("$ref"))

DepthAsSupplied ==
    (reply.op = "getSchemaDetails" /\ ~reply.threw /\ reply.resolveRefs # "false") =>
        LET supplied == IF reply.maxDepth = JUndef THEN DefaultMaxDepth ELSE reply.maxDepth.n
        IN  reply.v = getSchemaDetails(Body(cache[1].spec), reply.schemaName, TRUE, supplied).v

\* The elements of a parameters value (none when it is absent).
ListOf(v) == IF v.t = "arr" THEN v.c ELSE <<>>

\* The path-level parameters followed by the operation-level parameters of the
\* endpoint a getEndpointDetails reply is about.
MergedParameters ==
    LET pathItem == Prop(Prop(Body(cache[1].spec), W("paths")), reply.path)
        operation == Prop(pathItem, toLowerCase(reply.method))
    IN  ListOf(Prop(pathItem, W("parameters"))) \o ListOf(Prop(operation, W("parameters")))

\* C21 as stated: the returned endpoint has no parameters field when both
\* lists are empty or absent.  (Violated: line 250 sets parameters: undefined.)
NoParametersFieldWhenEmpty ==
    (reply.op = "getEndpointDetails" /\ ~reply.threw /\ MergedParameters = <<>>) =>
        ~HasKey(reply.v, W("parameters"))

\* C21, amended: parameters is the path-level list followed by the
\* operation-level list (with references resolved when resolveRefs); when both
\* are empty or absent the returned object has the property parameters with
\* the value undefined, which the serialised endpoint does not show.
ParametersConcatenated ==
    (reply.op = "getEndpointDetails" /\ ~reply.threw) =>
        IF MergedParameters # <<>>
        THEN Prop(reply.v, W("parameters")) =
                IF reply.resolveRefs
                THEN resolveAllRefs(Body(cache[1].spec), JArr(MergedParameters), DefaultMaxDepth, 0, {}, <<>>).v
                ELSE JArr(MergedParameters)
        ELSE /\ HasKey(reply.v, W("parameters"))
             /\ Prop(reply.v, W("parameters")) = JUndef
             /\ ~HasKey(Serialize(reply.v), W("parameters"))

\* POST /pets: the path-level parameter and the operation's equal parameter
\* both appear.
ParametersConcatenatedWitness ==
    /\ reply.op = "getEndpointDetails" /\ ~reply.threw
    /\ cache[1].spec = "api" /\ reply.path = <<"/", "pets">> /\ reply.method = W("post")
    /\ Prop(reply.v, W("parameters")) =
          JArr(<< O(<< <<W("name"), JStr(W("limit"))>> >>), O(<< <<W("name"), JStr(W("limit"))>> >>) >>)

\* The keys of filtered are the keys of paths that match pattern, in order,
\* each with the path item paths holds.
MatchingEntries(paths, filtered, pattern) ==
    /\ filtered.t = "obj"
    /\ ObjectKeys(filtered) = SelectSeq(ObjectKeys(paths), LAMBDA key : RegExpTest(pattern, key))
    /\ \A i \in 1..Len(filtered.k) : filtered.c[i] = Prop(paths, filtered.k[i])

\* copy holds every field of spec but paths unchanged, and the matching paths.
FilteredCopy(spec, copy, pattern) ==
    /\ copy.t = "obj"
    /\ { copy.k[i] : i \in 1..Len(copy.k) } = { spec.k[i] : i \in 1..Len(spec.k) } \cup {W("paths")}
    /\ \A i \in 1..Len(spec.k) : spec.k[i] # W("paths") => Prop(copy, spec.k[i]) = spec.c[i]
    /\ MatchingEntries(OrEmptyObject(Prop(spec, W("paths"))), Prop(copy, W("paths")), pattern)

\* What getSpecSection answers when the section values in whole stand for the
\* whole document.
SectionAnswer(whole) ==
    reply.op = "getSpecSection" =>
        LET spec == Body(cache[1].spec)
            named == { JStr(W("info")), JStr(W("components")), JStr(W("tags")), JStr(W("servers")) }
        IN  IF reply.section \in whole
            THEN IF ~Truthy(reply.pathFilter) THEN ~reply.threw /\ reply.v = spec
                 ELSE IF ~RegExpValid(reply.pathFilter.s) THEN reply.threw
                 ELSE ~reply.threw /\ FilteredCopy(spec, reply.v, reply.pathFilter.s)
            ELSE IF reply.section = JStr(W("paths"))
            THEN IF ~Truthy(reply.pathFilter) THEN ~reply.threw /\ reply.v = Prop(spec, W("paths"))
                 ELSE IF ~RegExpValid(reply.pathFilter.s) THEN reply.threw
                 ELSE /\ ~reply.threw
                      /\ MatchingEntries(OrEmptyObject(Prop(spec, W("paths"))), reply.v,
                                         reply.pathFilter.s)
            ELSE IF reply.section \in named
            THEN ~reply.threw /\ reply.v = Prop(spec, reply.section.s)
            ELSE reply.threw /\ reply.error = UnknownSection

\* C22 (as stated): a section that is absent or 'full' gives the whole
\* document, or with a non-empty pathFilter a copy whose paths are the
\* matching entries; 'paths' gives the paths object or its matching entries;
\* 'info', 'components', 'tags' and 'servers' give that field; every other
\* section value fails with the error that lists the valid sections.
OnlyAbsentOrFullIsWhole == SectionAnswer({JUndef, JStr(W("full"))})

\* C22 (amended): the same, with the empty string standing for the whole
\* document as an absent section and 'full' do.
SectionSelectsPart == SectionAnswer({JUndef, JStr(<<>>), JStr(W("full"))})

\* C22 witness: a case-insensitive filter on the 'paths' section keeps one of
\* two paths with its original path item.
SectionSelectsPartWitness ==
    /\ reply.op = "getSpecSection"
    /\ reply.section = JStr(W("paths"))
    /\ reply.pathFilter = JStr(W("PETS"))
    /\ ~reply.threw
    /\ Len(ObjectKeys(Prop(Body(cache[1].spec), W("paths")))) = 2
    /\ ObjectKeys(reply.v) = << <<"/", "pets">> >>

SchemaFoundByExactKey ==
    reply.op = "getSchemaDetails" =>
        LET schemas == ComponentsSchemas(Body(cache[1].spec))
        IN  IF ~HasKey(schemas, reply.schemaName)
            THEN reply.threw /\ reply.error = "Schema not found"
            ELSE /\ ~reply.threw
                 /\ ObjectKeys(reply.v) = <<W("name"), W("schema")>>
                 /\ Prop(reply.v, W("name")) = JStr(reply.schemaName)
                 /\ reply.resolveRefs = "false" =>
                        Prop(reply.v, W("schema")) = Prop(schemas, reply.schemaName)

\* The index entries of the cache hold the literal fields of the operations
\* and schemas of the entry's document, and no entry stands for a reference.
IndexEntriesLiteral ==
    cache # <<>> =>
        LET spec == Body(cache[1].spec)
        IN  /\ \A i \in 1..Len(cache[1].endpointIndex) :
                   LET e == cache[1].endpointIndex[i]
                       operation == Prop(Prop(Prop(spec, W("paths")), e.path), toLowerCase(e.method))
                   IN  /\ operation.t = "obj"
                       /\ e.summary = Prop(operation, W("summary"))
                       /\ e.description = Prop(operation, W("description"))
                       /\ e.tags = Prop(operation, W("tags"))
                       /\ e.operationId = Prop(operation, W("operationId"))
            /\ \A i \in 1..Len(cache[1].schemaIndex) :
                   LET e == cache[1].schemaIndex[i]
                       schema == Prop(ComponentsSchemas(spec), e.name)
                   IN  /\ schema.t = "obj"
                       /\ ~HasKey(schema, W("$ref"))
                       /\ e.type = Prop(schema, W("type"))
                       /\ e.description = Prop(schema, W("description"))
                       /\ e.properties.t = "arr" =>
                              \A j \in 1..Len(e.properties.c) :
                                  HasKey(Prop(schema, W("properties")), e.properties.c[j].s)

CarriesConfiguredKey(req) ==
    \/ req.headerKey.t = "str" /\ req.headerKey.s \in apiKeys
    \/ req.queryKey.t = "str" /\ req.queryKey.s \in apiKeys

\* A request to /mcp without a configured key, answered while keys are
\* configured.
Unauthenticated ==
    /\ reply.op = "http"
    /\ reply.req.pathname = "/mcp"
    /\ apiKeys # {}
    /\ ~CarriesConfiguredKey(reply.req)

\* C26 (as stated): with keys configured, a request to /mcp without a
\* configured key reaches no session transport, creates no session, leaves the
\* session table unchanged and is answered 401; with no keys configured no
\* request is answered 401.
UnauthenticatedAnswered401 ==
    /\ Unauthenticated =>
          /\ reply.passed = NoSession
          /\ reply.created = NoSession
          /\ ~reply.changed
          /\ reply.status = "401"
    /\ (reply.op = "http" /\ apiKeys = {}) => reply.status # "401"

\* C26 (amended): the same, except that an OPTIONS request is answered 204
\* before the key is looked at.
UnauthenticatedNeverServed ==
    /\ Unauthenticated =>
          /\ reply.passed = NoSession
          /\ reply.created = NoSession
          /\ ~reply.changed
          /\ reply.status = IF reply.req.method = "OPTIONS" THEN "204" ELSE "401"
    /\ (reply.op = "http" /\ apiKeys = {}) => reply.status # "401"

\* C26 witness: an initialize request without a key is refused while a
\* session exists.
UnauthenticatedNeverServedWitness ==
    /\ Unauthenticated
    /\ reply.req.method = "POST"
    /\ reply.req.body = "initialize"
    /\ reply.req.sessionId = JUndef
    /\ transports # {}
    /\ reply.status = "401"

\* A schema index entry passes every filter a search_schemas input gives (a
\* filter is given when it is a non-empty string).
PassesSchemaFilters(e, input) ==
    /\ Truthy(input.namePattern) => RegExpTest(input.namePattern.s, e.name)
    /\ Truthy(input.propertyName) =>
          /\ e.properties # JUndef
          /\ \E j \in 1..Len(e.properties.c) :
                 Includes(toLowerCase(e.properties.c[j].s), toLowerCase(input.propertyName.s))

\* C27: searchSchemas keeps exactly the index entries whose name matches
\* namePattern as a case-insensitive regex and one of whose property names
\* contains propertyName ignoring case, each filter applying when given; an
\* entry without properties passes no propertyName filter.
SchemaFiltersCompose ==
    (reply.op = "searchSchemas" /\ ~reply.threw) =>
        LET kept == SelectSeq(cache[1].schemaIndex, LAMBDA e : PassesSchemaFilters(e, reply.input))
        IN  /\ reply.total = Len(kept)
            /\ reply.items = Slice(kept, reply.offset, reply.offset + reply.limit)
            /\ Truthy(reply.input.propertyName) =>
                   \A i \in 1..Len(reply.items) : reply.items[i].properties # JUndef

\* C27 witness: both filters given on an index of three schemas, one of them
\* without properties; one schema passes both.
SchemaFiltersComposeWitness ==
    /\ reply.op = "searchSchemas" /\ ~reply.threw
    /\ Truthy(reply.input.namePattern) /\ Truthy(reply.input.propertyName)
    /\ Len(cache[1].schemaIndex) = 3
    /\ \E i \in 1..3 : cache[1].schemaIndex[i].properties = JUndef
    /\ reply.total = 1
    /\ Len(reply.items) = 1 /\ reply.items[1].name = W("Pet")

\* C30: a circular marker is produced only for a pointer that an enclosing
\* call is resolving, and a pointer that is on no enclosing resolution is
\* expanded wherever it occurs below the depth limit, so two sibling
\* occurrences are both expanded.  (Violated on a resolver whose visitedRefs
\* kept a pointer when an earlier call threw.)
CircularOnlyOnPath ==
    \A ev \in answer.log :
        /\ ev.e = "circular" => OnPath(ev.ref, ev.path)
        /\ (ev.e # "raw" /\ ~OnPath(ev.ref, ev.path)) => ev.e \in {"expand", "throw"}

\* The answer is not a not-found failure.
Accepted(out) ==
    ~(out.threw /\ out.error \in {"Path not found", "Method not found", "Schema not found"})

\* C31: on one cached document, getEndpointDetails accepts the (path, method)
\* of every endpoint index entry and getSchemaDetails the name of every schema
\* index entry, and every (path, method) getEndpointDetails accepts is that of
\* an endpoint index entry.  (Violated: line 237 also finds the fields of a
\* path item that are not verbs, which buildEndpointIndex never lists.)
SearchAndDetailsAgree ==
    /\ cache # <<>> =>
          /\ \A i \in 1..Len(cache[1].endpointIndex) :
                 Accepted(getEndpointDetails(Body(cache[1].spec), cache[1].endpointIndex[i].path,
                                             cache[1].endpointIndex[i].method, FALSE))
          /\ \A i \in 1..Len(cache[1].schemaIndex) :
                 Accepted(getSchemaDetails(Body(cache[1].spec), cache[1].schemaIndex[i].name,
                                           FALSE, DefaultMaxDepth))
    /\ (reply.op = "getEndpointDetails" /\ Accepted(reply)) =>
          \E i \in 1..Len(cache[1].endpointIndex) :
              /\ cache[1].endpointIndex[i].path = reply.path
              /\ cache[1].endpointIndex[i].method = toUpperCase(reply.method)

\* The request reaches the session routing of handleMcpRequest: it is sent to
\* /mcp, is not a preflight and passes the key check.
ReachesRouting(req) ==
    /\ req.pathname = "/mcp"
    /\ req.method # "OPTIONS"
    /\ checkApiKey(req)

\* The request is an initialize request.
IsInitialize(req) == req.method = "POST" /\ req.body = "initialize"

\* What C32 says of the step in which the server answers req.
RequestKeepsTableSafe(req) ==
    /\ transports' \ transports # {} =>
          /\ ReachesRouting(req)
          /\ IsInitialize(req)
          /\ req.sessionId = JUndef
    /\ (ReachesRouting(req) /\ req.sessionId # JUndef /\ req.sessionId.s \notin transports) =>
          /\ reply'.status = "404"
          /\ transports' = transports
    /\ (ReachesRouting(req) /\ req.sessionId = JUndef /\ ~IsInitialize(req)) =>
          reply'.status = "400"
    /\ (ReachesRouting(req) /\ req.sessionId # JUndef /\ req.sessionId.s \in transports) =>
          /\ reply'.status = "transport"
          /\ reply'.passed = req.sessionId.s

\* C32: a session is created only by an authenticated POST to /mcp without a
\* session id whose body is an initialize request; an authenticated request
\* with a session id that is not in the table is answered 404 and creates no
\* session; one with no session id that is not an initialize request is
\* answered 400; one with a known session id is passed to that session's
\* transport; a session leaves the table when its transport closes or errors.
\* (Violated: lines 165-167 take what the table inherits for a session, and a
\* body that is not JSON is answered 500.)
SessionTableSafe ==
    [][ /\ \A req \in Requests : Request(req) => RequestKeepsTableSafe(req)
        /\ \A sid \in SessionIds : (onclose(sid) \/ onerror(sid)) => sid \notin transports'
      ]_vars

\* The pointers of the $ref nodes on the resolution path of an event: those
\* of the enclosing resolutions and, for a node being resolved, its own.
PathPointers(ev) ==
    {ev.path[i] : i \in 1..Len(ev.path)} \cup (IF ev.e \in {"expand", "throw"} THEN {ev.ref} ELSE {})

\* min(maxDepth, n)
MinDepth(maxDepth, n) == IF maxDepth <= n THEN maxDepth ELSE n

\* C33: a top-level resolveAllRefs call that starts with an empty visited set
\* and returns normally leaves it empty; throughout the call the set holds
\* exactly the pointers of the $ref nodes on the current resolution path, and
\* it never has more than min(maxDepth, number of distinct pointers in the
\* document) elements.
VisitedSetBalanced ==
    (answer.called /\ answer.before = {} /\ ~answer.threw) =>
        /\ answer.after = {}
        /\ \A ev \in answer.log :
              /\ ev.held = PathPointers(ev)
              /\ Cardinality(ev.held) <=
                     MinDepth(answer.maxDepth, Cardinality(RefsIn(Body(resolver.spec))))

\* C33 witness: a call from an empty set returned normally after two nested
\* resolutions were under way at once.
VisitedSetBalancedWitness ==
    /\ answer.called /\ answer.before = {} /\ ~answer.threw
    /\ answer.after = {}
    /\ \E ev \in answer.log : ev.e = "expand" /\ Cardinality(ev.held) = 2

====
